---- MODULE Spec2Model ----
(***************************************************************************)
(* Interactive transactions of libsql-client over the HTTP pipeline        *)
(* protocol: the baton/base_url session map of src/src/http.rs and of      *)
(* src/src/reqwest.rs, driven through the Transaction handle of            *)
(* src/src/transaction.rs and the id counter of src/src/client.rs.         *)
(*                                                                         *)
(* Every call suspends at its transport send (".await"): a call is one     *)
(* action up to the send and one action from the response on.              *)
(*                                                                         *)
(* Further specifications over the same state: the allocation of           *)
(* transaction ids (SpecIds), raw_batch / batch on the embedded, pipeline  *)
(* and legacy JSON backends (SpecBatch), and the stream map of the         *)
(* WebSocket backend of src/src/hrana.rs (SpecHrana, SpecHranaRace), two   *)
(* interleaved transactions (SpecPair), the RwLock of the session map      *)
(* (SpecLock), the embedded backend's calls (SpecLocal), and functions     *)
(* applied to inputs drawn from bounded sets: response decoding            *)
(* (SpecDecode, SpecJson), row metadata (SpecSniff), the name -> value map *)
(* of a row (SpecRow), the legacy argument codec (SpecCodec), the serde    *)
(* deserializer of a row's values (SpecDe), Client::batch's result         *)
(* mapping (SpecBatchFn), the embedded backend's execute (SpecLocalExec)   *)
(* and pop_query_param (SpecPop).  SpecStateless adds raw_batch outside a  *)
(* transaction to the two interleaved callers of SpecPair.                 *)
(***************************************************************************)
EXTENDS Integers, Sequences, FiniteSets, TLC

\* ------------------------------------------------------------------ bounds
\* Number of transaction ids handed out by TRANSACTION_IDS.
MaxTx == 1
\* Number of Transaction::execute calls per transaction.
MaxExec == 2
\* Number of backend-level calls per id made without the handle.
MaxDirect == 1
\* Number of tasks calling transaction() concurrently.
MaxIdCallers == 2
\* Number of transaction() calls made in total by those tasks.
MaxAlloc == 3
\* Number of statements a caller supplies to raw_batch / batch.
MaxStmts == 3
\* Number of results in a pipeline response.
MaxResults == 3
\* Number of calls made on the embedded backend.
MaxLocalCalls == 4
\* Number of commands in the SQL text of one statement.
MaxCmds == 2
\* Largest value of the connection's changes() counter.
MaxChanges == 2
\* Number of columns of a StmtResult.
MaxCols == 3
\* Number of arguments of a Statement.
MaxArgs == 2
\* Nesting of Option<..> around the type of a target field.
MaxOptionDepth == 1
\* Longest query string of a URL, in pairs.
MaxPairs == 2
\* Number of transaction ids (and tasks) on the WebSocket backend.
MaxHranaTx == 2

\* ------------------------------------------------------------------ values
None == "None"
Batons == {"b1", "b2"}
RedirectUrls == {"u1"}
OptBaton == Batons \cup {None}
OptUrl == RedirectUrls \cup {None}

\* The two baton backends: http::Client (Cookie map) and reqwest::Client
\* (baton map).
Backends == {"http", "reqwest"}

\* A caller is a task of the program; it is named by the transaction id it
\* is handed when it calls transaction().
TxIds == 1..MaxTx
\* The map's key space: 0 is the tx_id of non-transactional requests.
Keys == 0..MaxTx

\* pipeline::ServerMsg.results, as the list of the variants of its entries.
ResultLists == {<<"OkExecute">>, <<"Error">>}
ServerMsgs == [baton : OptBaton, base_url : OptUrl, results : ResultLists]
\* No response received yet.
NoMsg == [baton |-> "NoMsg", base_url |-> "NoMsg", results |-> <<>>]
\* The outcome of a send: a response, or the transport's failure.
TransportError == [baton |-> "TransportError", base_url |-> "TransportError",
                   results |-> <<>>]
SendOutcomes == ServerMsgs \cup {TransportError}

\* An absent key of the session map; no request in flight.
NoCookie == [baton |-> "absent", base_url |-> "absent"]
NoReq == [kind |-> "NoReq", tx_id |-> 0, baton |-> None, url |-> None]
Cookies == [baton : OptBaton, base_url : OptUrl]
StmtKinds == {"BEGIN", "EXEC", "COMMIT", "ROLLBACK"}
Terminal == {"COMMIT", "ROLLBACK"}
Requests == [kind : StmtKinds \cup {"Close"}, tx_id : Keys, baton : OptBaton,
             url : RedirectUrls \cup {"url_for_queries"}]
Errors == {"ErrTransport", "ErrStreamClosed", "ErrEmpty", "ErrMultiple",
           "ErrUnexpected", "ErrServer", "ErrMisuse"}

VARIABLES
    backend,          \* which baton backend the client was built with
    TRANSACTION_IDS,  \* the process-wide id counter
    cookies,          \* tx_id -> Cookie, NoCookie for an absent key
    handle,           \* the Transaction value of an id
    call,             \* the call in progress (or last made) by a caller
    inflight,         \* the request awaiting its response, NoReq when idle
    ret,              \* what the last call returned, "pending" while it runs
    \* history of the exchange, never read by the client's code
    lastMsg,          \* latest response received in the caller's session
    answered,         \* the latest statement request got a response
    closeRes,         \* send outcome of the Close of the call
    beginAck,         \* whether the server acknowledged BEGIN
    firstStmt,        \* first statement sent for the id
    nExec,            \* Transaction::execute calls made
    nTerm,            \* COMMIT/ROLLBACK statements sent through the handle
    nDirect,          \* backend-level calls made without the handle
    released          \* commit/rollback has removed the id's entry

\* State of the callers of transaction() (id allocation).
VARIABLES
    idCall,           \* the transaction() call a caller is in
    handedOut,        \* ids fetch_add has returned so far
    nHanded,          \* number of fetch_add calls made
    maxCompleted      \* largest id of a transaction() call that has returned

\* State of one raw_batch / batch call.
VARIABLES
    bBackend,         \* the backend the client was built with
    bApi,             \* the method the caller invokes: raw_batch or batch
    bStmts,           \* the statements the caller supplies
    bPc,              \* where the call is
    bSteps,           \* the steps handed to the database, in request order
    bExecuted,        \* the statements the database ran, in execution order
    bRaw,             \* raw_batch's BatchResult (in the making, or returned)
    bRet              \* what batch returned

\* State of the WebSocket backend (hrana.rs) and of its callers.
VARIABLES
    streams_for_transactions,  \* tx_id -> stream, 0 for an absent key
    hCall,            \* the call a task is in
    hHandle,          \* the Transaction value of an id
    hExec,            \* statement calls a task has made
    \* history, never read by the client's code
    hOpens,           \* per id, the statements whose call invoked open_stream
    hUsed,            \* per id, the streams its statements were executed on
    hNextStream       \* the stream the next successful open_stream yields

\* The RwLock around a session map (cookies, batons, streams_for_transactions)
\* and the position of each task in a call that takes it.
VARIABLES
    lkBackend,        \* "http", "reqwest" or "hrana"
    lkPc,             \* per task, where its call stands
    lkOp,             \* per task, the call it is in
    lkReaders,        \* tasks holding a read guard
    lkWriter,         \* the task holding the write guard, 0 for none
    lkEntry           \* per id, whether the map has an entry

\* Input and output of a function applied on its own.
VARIABLES
    pIn,
    pOut

\* The embedded backend (local.rs): its one connection and its callers.
VARIABLES
    lConn,            \* the connection: in a transaction or not, what it ran
    lLast,            \* history: the last call, the connection before it,
                      \* and what it returned
    lN                \* calls made

\* The session state of the baton backends, without the id counter.
sessionVars == <<backend, cookies, handle, call, inflight, ret, lastMsg,
                 answered, closeRes, beginAck, firstStmt, nExec, nTerm,
                 nDirect, released>>
idVars == <<idCall, handedOut, nHanded, maxCompleted>>
batchVars == <<bBackend, bApi, bStmts, bPc, bSteps, bExecuted, bRaw, bRet>>
hranaVars == <<streams_for_transactions, hCall, hHandle, hExec, hOpens, hUsed,
               hNextStream>>
lockVars == <<lkBackend, lkPc, lkOp, lkReaders, lkWriter, lkEntry>>
pureVars == <<pIn, pOut>>
localVars == <<lConn, lLast, lN>>
moreVars == <<lockVars, pureVars, localVars>>
\* What the calls on the baton backends leave alone.
otherVars == <<idVars, batchVars, hranaVars, moreVars>>

vars == <<TRANSACTION_IDS, sessionVars, otherVars>>

\* ------------------------------------------------------------ pure helpers
url_for_queries == "url_for_queries"

CookieDefault == [baton |-> None, base_url |-> None]

\* Which ids get their baton looked up and stored.
InTransaction(tx_id) == tx_id > 0

\* The cookie a request of tx_id is built from, given the map m.
CookieFor(m, tx_id) ==
    IF InTransaction(tx_id) /\ m[tx_id] /= NoCookie
    THEN m[tx_id]
    ELSE CookieDefault

\* The cookie close_stream_for builds its request from.
CloseCookieFor(m, tx_id) ==
    IF m[tx_id] /= NoCookie THEN m[tx_id] ELSE CookieDefault

\* The URL a request built from cookie is sent to.
RequestUrl(cookie) ==
    IF cookie.base_url /= None THEN cookie.base_url ELSE url_for_queries

\* The entry stored for a response that carries a baton.
StoredCookie(b, msg) ==
    IF b = "http"
    THEN [baton |-> msg.baton, base_url |-> msg.base_url]
    ELSE [baton |-> msg.baton, base_url |-> None]

CookiesAfter_EveryKey(b, tx_id, out) ==
    IF out /= TransportError /\ InTransaction(tx_id) /\ out.baton /= None
    THEN [k \in DOMAIN cookies |->
            IF k > 0 THEN StoredCookie(b, out) ELSE cookies[k]]
    ELSE cookies

CookiesAfter_DropOnFailure(b, tx_id, out) ==
    IF out = TransportError
    THEN [cookies EXCEPT ![tx_id] = NoCookie]
    ELSE IF InTransaction(tx_id) /\ out.baton /= None
    THEN [cookies EXCEPT ![tx_id] = StoredCookie(b, out)]
    ELSE cookies

CookiesAfter_AnyId(b, tx_id, out) ==
    IF out /= TransportError /\ out.baton /= None
    THEN [cookies EXCEPT ![tx_id] = StoredCookie(b, out)]
    ELSE cookies

CookiesAfter_OkOnly(b, tx_id, out) ==
    IF out /= TransportError /\ InTransaction(tx_id) /\ out.baton /= None
       /\ out.results = <<"OkExecute">>
    THEN [cookies EXCEPT ![tx_id] = StoredCookie(b, out)]
    ELSE cookies

\* The session map after the send outcome out of a request of tx_id.
CookiesAfter(b, tx_id, out) ==
    IF out /= TransportError /\ InTransaction(tx_id) /\ out.baton /= None
    THEN [cookies EXCEPT ![tx_id] = StoredCookie(b, out)]
    ELSE cookies

\* Decoding of the results of an execute response.
DecodeExecute(results) ==
    IF Len(results) = 0 THEN "ErrEmpty"
    ELSE IF Len(results) > 1 THEN "ErrMultiple"
    ELSE IF results[1] = "OkExecute" THEN "Ok"
    ELSE IF results[1] = "Error" THEN "ErrServer"
    ELSE "ErrUnexpected"

\* Vec::swap_remove(0): removes and returns the element at index 0.
swap_remove_0(results) == results[1]

DecodeBatch_AnyOk(results) ==
    IF Len(results) = 0 THEN "ErrEmpty"
    ELSE IF Len(results) > 2 THEN "ErrMultiple"
    ELSE IF swap_remove_0(results) = "Error" THEN "ErrServer"
    ELSE "Ok"

\* Decoding of the results of a raw_batch response (requests: Batch, Close).
DecodeBatch(results) ==
    IF Len(results) = 0 THEN "ErrEmpty"
    ELSE IF Len(results) > 2 THEN "ErrMultiple"
    ELSE IF swap_remove_0(results) = "OkBatch" THEN "Ok"
    ELSE IF swap_remove_0(results) = "Error" THEN "ErrServer"
    ELSE "ErrUnexpected"

ExecuteResult_DecodeFirst(tx_id, out) ==
    IF out = TransportError THEN "ErrTransport"
    ELSE IF DecodeExecute(out.results) = "Ok" THEN "Ok"
    ELSE IF InTransaction(tx_id) /\ out.baton = None THEN "ErrStreamClosed"
    ELSE DecodeExecute(out.results)

\* What execute_inner returns for the send outcome out.
ExecuteResult(tx_id, out) ==
    IF out = TransportError THEN "ErrTransport"
    ELSE IF InTransaction(tx_id) /\ out.baton = None THEN "ErrStreamClosed"
    ELSE DecodeExecute(out.results)

NewHandle_Always(res) == "live"

\* Transaction::new: the handle exists only if BEGIN returned Ok.
NewHandle(res) == IF res = "Ok" THEN "live" ELSE "failed"

HandleAfterTerminal_Kept == "live"

\* commit(self) / rollback(self) take the handle by value.
HandleAfterTerminal == "consumed"

\* close_stream_for: whether the entry is removed, given the send outcome.
CloseRemoves(b, sendOk) == IF b = "http" THEN TRUE ELSE sendOk

CommitReturn_Propagate(sendOk) == IF sendOk THEN "Ok" ELSE "ErrTransport"

\* commit_transaction / rollback_transaction after a successful statement:
\* close_stream_for(..).await.ok(); Ok(())
CommitReturn(sendOk) == "Ok"

\* ---------------------------------------------------------- id allocation
IdCallers == 1..MaxIdCallers
\* Client::transaction (async) and SyncClient::transaction (blocking), on
\* either of two client instances: all share the one static counter.
Apis == {"Client", "SyncClient"}
ClientInstances == {"db1", "db2"}
NoIdCall == [pc |-> "idle", api |-> "none", client |-> "none", id |-> 0,
             floor |-> 0]

fetch_add_NoStore(counter, val) == [previous |-> counter, stored |-> counter]

fetch_add_FromZero(counter, val) ==
    [previous |-> counter - 1, stored |-> counter + val]

\* AtomicU64::fetch_add(val): one indivisible read-modify-write that returns
\* the previous value.  (The u64 wraps after 2^64 calls, far out of reach.)
fetch_add(counter, val) == [previous |-> counter, stored |-> counter + val]

\* No transaction() call has been made.
IdInit ==
    /\ idCall = [c \in IdCallers |-> NoIdCall]
    /\ handedOut = {}
    /\ nHanded = 0
    /\ maxCompleted = 0

\* ----------------------------------------------------------------- batches
\* The embedded backend (local.rs), the pipeline backends (http.rs; hrana.rs
\* and reqwest.rs build their batch the same way) and the legacy JSON
\* backend (spin.rs).
BatchBackends == {"local", "http", "spin"}
BatchApis == {"raw_batch", "batch"}

\* The caller's j-th statement: its text names it; odd ones carry two
\* positional arguments.
SqlNames == <<"s1", "s2", "s3", "s4", "s5">>
CallerStatement(j) ==
    [sql |-> SqlNames[j], args |-> IF j % 2 = 1 THEN <<"a1", "a2">> ELSE <<>>]
CallerStatementLists ==
    {[j \in 1..n |-> CallerStatement(j)] : n \in 0..MaxStmts}

\* Statement::new(sql): no bound parameters.
Statement_new(sql) == [sql |-> sql, args |-> <<>>]

\* Option<StmtResult> and Option<proto::Error> of one step.  A result is
\* known by the statement that produced it, an error by the statement that
\* raised it.
NoStmtResult == [some |-> FALSE, stmt |-> "-"]
SomeStmtResult(sql) == [some |-> TRUE, stmt |-> sql]
NoStepError == [some |-> FALSE, message |-> "-"]
SomeStepError(sql) == [some |-> TRUE, message |-> sql]

\* Result<BatchResult>.
PendingBatchResult ==
    [status |-> "pending", step_results |-> <<>>, step_errors |-> <<>>,
     err |-> "-"]
OkBatchResult(results, errors) ==
    [status |-> "Ok", step_results |-> results, step_errors |-> errors,
     err |-> "-"]
ErrBatchResult(e) ==
    [status |-> "Err", step_results |-> <<>>, step_errors |-> <<>>, err |-> e]

\* Result<Vec<ResultSet>>.
NoBatchReturn == [status |-> "none", list |-> <<>>, err |-> "-"]
OkResultSets(list) == [status |-> "Ok", list |-> list, err |-> "-"]
ErrResultSets(e) == [status |-> "Err", list |-> <<>>, err |-> e]

\* hrana Stmt::bind: appends one positional argument.
bind(hrana_stmt, param) == [hrana_stmt EXCEPT !.args = Append(@, param)]

RECURSIVE bind_all(_, _)
bind_all(hrana_stmt, params) ==
    IF params = <<>> THEN hrana_stmt
    ELSE bind_all(bind(hrana_stmt, Head(params)), Tail(params))

into_hrana_LastArgFirst(stmt) ==
    IF stmt.args = <<>> THEN [sql |-> stmt.sql, args |-> <<>>]
    ELSE [sql |-> stmt.sql,
          args |-> <<stmt.args[Len(stmt.args)]>>
                   \o SubSeq(stmt.args, 1, Len(stmt.args) - 1)]

\* into_hrana: Stmt::new(sql, true), then bind each argument in turn.
into_hrana(stmt) == bind_all([sql |-> stmt.sql, args |-> <<>>], stmt.args)

\* raw_batch: for stmt in stmts { batch.step(None, into_hrana(stmt)) }.
RECURSIVE build_steps(_)
build_steps(stmts) ==
    IF stmts = <<>> THEN <<>>
    ELSE <<into_hrana(Head(stmts))>> \o build_steps(Tail(stmts))

\* batch: once(BEGIN).chain(stmts).chain(once(END)).
wrap_in_transaction(stmts) ==
    <<Statement_new("BEGIN")>> \o stmts \o <<Statement_new("END")>>

\* Iterator::skip(1) and Vec::pop.
skip1(seq) == SubSeq(seq, 2, Len(seq))
pop(seq) == IF seq = <<>> THEN seq ELSE SubSeq(seq, 1, Len(seq) - 1)

\* find(|e| e.is_some()).flatten()
RECURSIVE find_some(_)
find_some(errors) ==
    IF errors = <<>> THEN NoStepError
    ELSE IF Head(errors).some THEN Head(errors)
    ELSE find_some(Tail(errors))

step_error_NoSkip(step_errors) == find_some(step_errors)

\* batch: the first error among step_errors[1..].
step_error(step_errors) == find_some(skip1(step_errors))

\* ResultSet::from(StmtResult).
ResultSet_from(stmt_result) == [rows_of |-> stmt_result.stmt]
NoResultSet == [rows_of |-> "-"]

to_result_Lenient(maybe_rs) ==
    [ok |-> TRUE, rs |-> ResultSet_from(maybe_rs), err |-> "-"]

\* maybe_rs.map(ResultSet::from).ok_or_else(|| "Unexpected missing result set")
to_result(maybe_rs) ==
    IF maybe_rs.some
    THEN [ok |-> TRUE, rs |-> ResultSet_from(maybe_rs), err |-> "-"]
    ELSE [ok |-> FALSE, rs |-> NoResultSet,
          err |-> "Unexpected missing result set"]

\* into_iter().collect::<Result<Vec<ResultSet>>>(): the first Err, or all Ok.
RECURSIVE collect(_)
collect(results) ==
    IF results = <<>> THEN OkResultSets(<<>>)
    ELSE IF ~Head(results).ok THEN ErrResultSets(Head(results).err)
    ELSE IF collect(Tail(results)).status = "Err" THEN collect(Tail(results))
    ELSE OkResultSets(<<Head(results).rs>> \o collect(Tail(results)).list)

batch_results_NoPop(step_results) ==
    collect([i \in 1..Len(skip1(step_results)) |->
                to_result(skip1(step_results)[i])])

\* batch: skip(1), map, collect into a Vec, pop, collect into one Result.
batch_results(step_results) ==
    collect(pop([i \in 1..Len(skip1(step_results)) |->
                    to_result(skip1(step_results)[i])]))

\* batch, from the value raw_batch returned.
batch_return_value(raw) ==
    IF raw.status = "Err" THEN ErrResultSets(raw.err)
    ELSE IF step_error(raw.step_errors).some
    THEN ErrResultSets(step_error(raw.step_errors).message)
    ELSE batch_results(raw.step_results)

\* No raw_batch / batch call is made.
BatchIdle ==
    /\ bBackend = "local"
    /\ bApi = "raw_batch"
    /\ bStmts = <<>>
    /\ bPc = "idle"
    /\ bSteps = <<>>
    /\ bExecuted = <<>>
    /\ bRaw = PendingBatchResult
    /\ bRet = NoBatchReturn

\* ------------------------------------------------------ WebSocket backend
HTxIds == 1..MaxHranaTx
NoStream == 0
NoHCall == [pc |-> "idle", tx_id |-> 0, kind |-> "none", stream |-> NoStream]

fast_path_Never(streams, tx_id) == FALSE

\* stream_for_transaction, fast path: streams.contains_key(&tx_id).
fast_path(streams, tx_id) == streams[tx_id] /= NoStream

\* stream_for_transaction, pessimistic path: the map after
\* "if let Entry::Vacant(e) = streams.entry(tx_id) { e.insert(stream) }".
insert_if_vacant(streams, tx_id, stream) ==
    IF streams[tx_id] = NoStream
    THEN [streams EXCEPT ![tx_id] = stream]
    ELSE streams

\* stream_for_transaction, pessimistic path: Ok(stream), the stream just
\* opened, whether or not it is the one the map holds.
stream_returned(streams, tx_id, stream) == stream

drop_stream_for_transaction_Keep(streams, tx_id) == streams

\* drop_stream_for_transaction: streams.remove(&tx_id).
drop_stream_for_transaction(streams, tx_id) ==
    [streams EXCEPT ![tx_id] = NoStream]

\* A connected hrana client, no stream open.
HranaInit ==
    /\ streams_for_transactions = [t \in HTxIds |-> NoStream]
    /\ hCall = [c \in HTxIds |-> NoHCall]
    /\ hHandle = [t \in HTxIds |-> "none"]
    /\ hExec = [c \in HTxIds |-> 0]
    /\ hOpens = [t \in HTxIds |-> <<>>]
    /\ hUsed = [t \in HTxIds |-> {}]
    /\ hNextStream = 1

\* ------------------------------------------------------ the map's RwLock
LockTasks == {1, 2, 3}
LkBackends == {"http", "reqwest", "hrana"}
LkPending == {"pending_send", "pending_open", "pending_stream"}
LkWaiting == {"want_read", "want_write", "want_drop"}
LkHolding == {"reading", "writing", "dropping"}

\* The read guard is a temporary of the `let cookie = ...` statement
\* (http.rs) or a local of the fast path's block (hrana.rs): it is dropped
\* where the statement or the block ends, before the next .await.
guard_dropped_Kept(readers, t) == readers

guard_dropped(readers, t) == readers \ {t}

\* No call in progress, nobody holds the lock, the map is empty.
LockIdle ==
    /\ lkBackend = "http"
    /\ lkPc = [t \in LockTasks |-> "idle"]
    /\ lkOp = [t \in LockTasks |-> "none"]
    /\ lkReaders = {}
    /\ lkWriter = 0
    /\ lkEntry = [t \in LockTasks |-> FALSE]

\* ------------------------------------------------- functions on their own
NoInput == [fn |-> "none"]

PureIdle ==
    /\ pIn = NoInput
    /\ pOut = NoInput

\* ------------------------------------------------ the embedded backend
\* The connection of a freshly opened database: autocommit, nothing run.
NewConn == [in_tx |-> FALSE, log |-> <<>>]
NoLocalCall == [api |-> "none", tx_id |-> 0, sql |-> "-", before |-> NewConn,
                ret |-> [status |-> "none", value |-> "-"]]

LocalIdle ==
    /\ lConn = NewConn
    /\ lLast = NoLocalCall
    /\ lN = 0

MoreIdle == LockIdle /\ PureIdle /\ LocalIdle

\* ------------------------------------------------------------------- Init
\* A client of a baton backend, no call made yet.
SessionInit ==
    /\ backend \in Backends
    /\ TRANSACTION_IDS = 1
    /\ cookies = [k \in Keys |-> NoCookie]
    /\ handle = [t \in TxIds |-> "none"]
    /\ call = [t \in TxIds |-> "none"]
    /\ inflight = [t \in TxIds |-> NoReq]
    /\ ret = [t \in TxIds |-> "none"]
    /\ lastMsg = [t \in TxIds |-> NoMsg]
    /\ answered = [t \in TxIds |-> FALSE]
    /\ closeRes = [t \in TxIds |-> "none"]
    /\ beginAck = [t \in TxIds |-> "none"]
    /\ firstStmt = [t \in TxIds |-> "none"]
    /\ nExec = [t \in TxIds |-> 0]
    /\ nTerm = [t \in TxIds |-> 0]
    /\ nDirect = [t \in TxIds |-> 0]
    /\ released = [t \in TxIds |-> FALSE]

Init ==
    /\ SessionInit
    /\ IdInit
    /\ BatchIdle
    /\ HranaInit
    /\ MoreIdle

\* ---------------------------------------------------------------- actions
\* execute_inner up to its send, called by caller c for tx_id: the request
\* is built from the cookie of tx_id and handed to the transport.
execute_inner_send(c, tx_id, kind, name) ==
    /\ inflight[c] = NoReq
    /\ inflight' = [inflight EXCEPT ![c] =
                      [kind |-> kind,
                       tx_id |-> tx_id,
                       baton |-> CookieFor(cookies, tx_id).baton,
                       url |-> RequestUrl(CookieFor(cookies, tx_id))]]
    /\ call' = [call EXCEPT ![c] = name]
    /\ ret' = [ret EXCEPT ![c] = "pending"]
    /\ closeRes' = [closeRes EXCEPT ![c] = "none"]
    /\ answered' = [answered EXCEPT ![c] = FALSE]
    /\ IF InTransaction(tx_id) /\ firstStmt[c] = "none"
       THEN firstStmt' = [firstStmt EXCEPT ![c] = kind]
       ELSE firstStmt' = firstStmt
    /\ UNCHANGED <<backend, cookies, released>>

\* Client::execute: execute_inner(stmt, 0), by a caller that has not
\* started its transaction yet.
Client_execute(c) ==
    /\ handle[c] = "none"
    /\ call[c] \in {"none", "execute"}
    /\ execute_inner_send(c, 0, "EXEC", "execute")
    /\ UNCHANGED <<TRANSACTION_IDS, handle, lastMsg, beginAck, nExec, nTerm,
                   nDirect>>
    /\ UNCHANGED otherVars

\* Client::transaction: a fresh id, then Transaction::new sends BEGIN.
Client_transaction(c) ==
    /\ TRANSACTION_IDS = c
    /\ handle[c] = "none"
    /\ TRANSACTION_IDS' = TRANSACTION_IDS + 1
    /\ execute_inner_send(c, TRANSACTION_IDS, "BEGIN", "transaction")
    /\ lastMsg' = [lastMsg EXCEPT ![c] = NoMsg]
    /\ UNCHANGED <<handle, beginAck, nExec, nTerm, nDirect>>
    /\ UNCHANGED otherVars

\* Transaction::execute(&self, stmt).
Transaction_execute(t) ==
    /\ handle[t] = "live"
    /\ nExec[t] < MaxExec
    /\ nExec' = [nExec EXCEPT ![t] = @ + 1]
    /\ execute_inner_send(t, t, "EXEC", "tx_execute")
    /\ UNCHANGED <<TRANSACTION_IDS, handle, lastMsg, beginAck, nTerm, nDirect>>
    /\ UNCHANGED otherVars

\* Transaction::commit(self) and Transaction::rollback(self).
Transaction_finish(t, kind) ==
    /\ handle[t] = "live"
    /\ inflight[t] = NoReq
    /\ handle' = [handle EXCEPT ![t] = HandleAfterTerminal]
    /\ nTerm' = [nTerm EXCEPT ![t] = @ + 1]
    /\ execute_inner_send(t, t, kind, "tx_finish")
    /\ UNCHANGED <<TRANSACTION_IDS, lastMsg, beginAck, nExec, nDirect>>
    /\ UNCHANGED otherVars

Transaction_commit(t) == Transaction_finish(t, "COMMIT")

Transaction_rollback(t) == Transaction_finish(t, "ROLLBACK")

\* The history kept of the send outcome of a statement request.
Received(c, out) ==
    /\ answered' = [answered EXCEPT ![c] = (out /= TransportError)]
    /\ lastMsg' = [lastMsg EXCEPT ![c] = IF out = TransportError THEN @ ELSE out]

\* execute_inner from the response on, for BEGIN sent by Transaction::new.
Transaction_new_return(t, out) ==
    /\ inflight[t].kind = "BEGIN"
    /\ Received(t, out)
    /\ cookies' = CookiesAfter(backend, t, out)
    /\ ret' = [ret EXCEPT ![t] = ExecuteResult(t, out)]
    /\ handle' = [handle EXCEPT ![t] = NewHandle(ExecuteResult(t, out))]
    /\ beginAck' = [beginAck EXCEPT ![t] =
                      IF out /= TransportError /\ out.results = <<"OkExecute">>
                      THEN "acked" ELSE "nack"]
    /\ inflight' = [inflight EXCEPT ![t] = NoReq]
    /\ UNCHANGED <<backend, TRANSACTION_IDS, call, closeRes, firstStmt,
                   nExec, nTerm, nDirect, released>>
    /\ UNCHANGED otherVars

\* execute_inner from the response on, for execute / execute_in_transaction.
execute_return(c, out) ==
    /\ inflight[c].kind = "EXEC"
    /\ Received(c, out)
    /\ cookies' = CookiesAfter(backend, inflight[c].tx_id, out)
    /\ ret' = [ret EXCEPT ![c] = ExecuteResult(inflight[c].tx_id, out)]
    /\ inflight' = [inflight EXCEPT ![c] = NoReq]
    /\ UNCHANGED <<backend, TRANSACTION_IDS, handle, call, closeRes,
                   beginAck, firstStmt, nExec, nTerm, nDirect, released>>
    /\ UNCHANGED otherVars

\* commit_transaction / rollback_transaction from the response to their
\* statement on: an error returns at once ("?"); otherwise close_stream_for
\* builds the Close request from the cookie and sends it.
terminal_stmt_return(t, out) ==
    /\ inflight[t].kind \in Terminal
    /\ Received(t, out)
    /\ cookies' = CookiesAfter(backend, t, out)
    /\ IF ExecuteResult(t, out) = "Ok"
       THEN /\ inflight' = [inflight EXCEPT ![t] =
                  [kind |-> "Close",
                   tx_id |-> t,
                   baton |-> CloseCookieFor(cookies', t).baton,
                   url |-> RequestUrl(CloseCookieFor(cookies', t))]]
            /\ ret' = ret
       ELSE /\ inflight' = [inflight EXCEPT ![t] = NoReq]
            /\ ret' = [ret EXCEPT ![t] = ExecuteResult(t, out)]
    /\ UNCHANGED <<backend, TRANSACTION_IDS, handle, call, closeRes,
                   beginAck, firstStmt, nExec, nTerm, nDirect, released>>
    /\ UNCHANGED otherVars

\* close_stream_for from the outcome of its send on, and the return of
\* commit_transaction / rollback_transaction.
close_return(t, sendOk) ==
    /\ inflight[t].kind = "Close"
    /\ closeRes' = [closeRes EXCEPT ![t] = IF sendOk THEN "ok" ELSE "failed"]
    /\ cookies' = IF CloseRemoves(backend, sendOk)
                  THEN [cookies EXCEPT ![t] = NoCookie]
                  ELSE cookies
    /\ released' = [released EXCEPT ![t] = @ \/ CloseRemoves(backend, sendOk)]
    /\ ret' = [ret EXCEPT ![t] = CommitReturn(sendOk)]
    /\ inflight' = [inflight EXCEPT ![t] = NoReq]
    /\ UNCHANGED <<backend, TRANSACTION_IDS, handle, call, lastMsg, answered,
                   beginAck, firstStmt, nExec, nTerm, nDirect>>
    /\ UNCHANGED otherVars

\* A caller that kept the id of its finished, released transaction calls the
\* backend's public execute_in_transaction / commit_transaction /
\* rollback_transaction with it.
direct_call(t, kind) ==
    /\ nDirect[t] < MaxDirect
    /\ handle[t] = "consumed"
    /\ released[t]
    /\ nDirect' = [nDirect EXCEPT ![t] = @ + 1]
    /\ execute_inner_send(t, t, kind, "direct")
    /\ UNCHANGED <<TRANSACTION_IDS, handle, lastMsg, beginAck, nExec, nTerm>>
    /\ UNCHANGED otherVars

\* ---------------------------------------------------------- specifications
Next ==
    \/ \E c \in TxIds : Client_execute(c)
    \/ \E c \in TxIds : Client_transaction(c)
    \/ \E t \in TxIds : Transaction_execute(t)
    \/ \E t \in TxIds : Transaction_commit(t)
    \/ \E t \in TxIds : Transaction_rollback(t)
    \/ \E t \in TxIds, out \in SendOutcomes : Transaction_new_return(t, out)
    \/ \E c \in TxIds, out \in SendOutcomes : execute_return(c, out)
    \/ \E t \in TxIds, out \in SendOutcomes : terminal_stmt_return(t, out)
    \/ \E t \in TxIds, sendOk \in BOOLEAN : close_return(t, sendOk)

\* The crate's public API: every call on a transaction goes through its handle.
Spec == Init /\ [][Next]_vars

ClientNext ==
    \/ Next
    \/ \E t \in TxIds, kind \in {"EXEC", "COMMIT", "ROLLBACK"} : direct_call(t, kind)

\* The backend client's public methods called with a kept id as well.
SpecClient == Init /\ [][ClientNext]_vars

TypeOK ==
    /\ backend \in Backends
    /\ TRANSACTION_IDS \in 1..(MaxTx + 1)
    /\ cookies \in [Keys -> Cookies \cup {NoCookie}]
    /\ handle \in [TxIds -> {"none", "live", "consumed", "failed"}]
    /\ call \in [TxIds -> {"none", "execute", "transaction", "tx_execute",
                           "tx_finish", "direct"}]
    /\ inflight \in [TxIds -> Requests \cup {NoReq}]
    /\ ret \in [TxIds -> Errors \cup {"Ok", "pending", "none"}]
    /\ lastMsg \in [TxIds -> ServerMsgs \cup {NoMsg}]
    /\ answered \in [TxIds -> BOOLEAN]
    /\ closeRes \in [TxIds -> {"none", "ok", "failed"}]
    /\ beginAck \in [TxIds -> {"none", "acked", "nack"}]
    /\ firstStmt \in [TxIds -> StmtKinds \cup {"none"}]
    /\ released \in [TxIds -> BOOLEAN]

\* ------------------------------ specification: two interleaved transactions
\* Two tasks, each with its own transaction, A and B.
PairIds == {1, 2}

\* The server hands out batons that belong to one stream: the baton of the
\* stream of task c's requests.
SessionBaton(c) == IF c = 1 THEN "b1" ELSE "b2"
PairOutcomes(c) ==
    {out \in SendOutcomes :
        out = TransportError \/ out.baton \in {None, SessionBaton(c)}}

CookiesAfterDrop_Release(m, t) == [m EXCEPT ![t] = NoCookie]

\* Transaction has no Drop implementation: letting the handle go touches
\* neither the map nor the transport.
CookiesAfterDrop(m, t) == m

\* The task drops (or forgets) its Transaction handle.
Transaction_drop(t) ==
    /\ handle[t] = "live"
    /\ inflight[t] = NoReq
    /\ handle' = [handle EXCEPT ![t] = "dropped"]
    /\ cookies' = CookiesAfterDrop(cookies, t)
    /\ UNCHANGED <<backend, TRANSACTION_IDS, call, inflight, ret, lastMsg,
                   answered, closeRes, beginAck, firstStmt, nExec, nTerm,
                   nDirect, released>>
    /\ UNCHANGED otherVars

PairInit ==
    /\ backend \in Backends
    /\ TRANSACTION_IDS = 1
    /\ cookies = [k \in {0} \cup PairIds |-> NoCookie]
    /\ handle = [t \in PairIds |-> "none"]
    /\ call = [t \in PairIds |-> "none"]
    /\ inflight = [t \in PairIds |-> NoReq]
    /\ ret = [t \in PairIds |-> "none"]
    /\ lastMsg = [t \in PairIds |-> NoMsg]
    /\ answered = [t \in PairIds |-> FALSE]
    /\ closeRes = [t \in PairIds |-> "none"]
    /\ beginAck = [t \in PairIds |-> "none"]
    /\ firstStmt = [t \in PairIds |-> "none"]
    /\ nExec = [t \in PairIds |-> 0]
    /\ nTerm = [t \in PairIds |-> 0]
    /\ nDirect = [t \in PairIds |-> 0]
    /\ released = [t \in PairIds |-> FALSE]
    /\ IdInit
    /\ BatchIdle
    /\ HranaInit
    /\ MoreIdle

PairNext ==
    \/ \E c \in PairIds : Client_execute(c)
    \/ \E c \in PairIds : Client_transaction(c)
    \/ \E t \in PairIds : Transaction_execute(t)
    \/ \E t \in PairIds : Transaction_commit(t)
    \/ \E t \in PairIds : Transaction_rollback(t)
    \/ \E t \in PairIds : Transaction_drop(t)
    \/ \E t \in PairIds : \E out \in PairOutcomes(t) :
          Transaction_new_return(t, out)
    \/ \E c \in PairIds : \E out \in PairOutcomes(c) :
          execute_return(c, out)
    \/ \E t \in PairIds : \E out \in PairOutcomes(t) :
          terminal_stmt_return(t, out)
    \/ \E t \in PairIds, sendOk \in BOOLEAN : close_return(t, sendOk)

\* Two transactions with different ids, interleaved at every await.
SpecPair == PairInit /\ [][PairNext]_vars

\* ------------------------- specification: operations outside a transaction
\* ClientMsg.requests of a request, by the statement or step it carries:
\* execute_inner sends vec![Execute], raw_batch vec![Batch, Close],
\* close_stream_for vec![Close].
requests_of(kind) ==
    IF kind = "Batch" THEN <<"Batch", "Close">>
    ELSE IF kind = "Close" THEN <<"Close">>
    ELSE <<"Execute">>

\* The send outcomes of a raw_batch request.
BatchOutcomes ==
    [baton : {None, "b2"}, base_url : {None},
     results : {<<"OkBatch", "OkClose">>, <<"Error">>}] \cup {TransportError}

\* raw_batch up to its send: baton None, to url_for_queries.
raw_batch_send(c) ==
    /\ handle[c] = "none"
    /\ call[c] \in {"none", "execute", "raw_batch"}
    /\ inflight[c] = NoReq
    /\ inflight' = [inflight EXCEPT ![c] =
                      [kind |-> "Batch", tx_id |-> 0, baton |-> None,
                       url |-> url_for_queries]]
    /\ call' = [call EXCEPT ![c] = "raw_batch"]
    /\ ret' = [ret EXCEPT ![c] = "pending"]
    /\ closeRes' = [closeRes EXCEPT ![c] = "none"]
    /\ answered' = [answered EXCEPT ![c] = FALSE]
    /\ UNCHANGED <<backend, TRANSACTION_IDS, cookies, handle, lastMsg,
                   beginAck, firstStmt, nExec, nTerm, nDirect, released>>
    /\ UNCHANGED otherVars

\* raw_batch from the response on: the results are decoded and returned.
raw_batch_return(c, out) ==
    /\ inflight[c].kind = "Batch"
    /\ Received(c, out)
    /\ ret' = [ret EXCEPT ![c] = IF out = TransportError THEN "ErrTransport"
                                 ELSE DecodeBatch(out.results)]
    /\ inflight' = [inflight EXCEPT ![c] = NoReq]
    /\ UNCHANGED <<backend, TRANSACTION_IDS, cookies, handle, call, closeRes,
                   beginAck, firstStmt, nExec, nTerm, nDirect, released>>
    /\ UNCHANGED otherVars

StatelessNext ==
    \/ PairNext
    \/ \E c \in PairIds : raw_batch_send(c)
    \/ \E c \in PairIds : \E out \in BatchOutcomes : raw_batch_return(c, out)

\* Two callers mixing raw_batch / execute with transactions.
SpecStateless == PairInit /\ [][StatelessNext]_vars

\* ------------------------------------------- specification: id allocation
\* What the transaction() callers of this specification leave alone.
notIdVars == <<sessionVars, batchVars, hranaVars, moreVars>>

Max(a, b) == IF a >= b THEN a ELSE b

\* A task calls transaction() on a client: the call has started, nothing of
\* its body has run yet.
transaction_enter(c, api, client) ==
    /\ idCall[c].pc = "idle"
    /\ nHanded + Cardinality({d \in IdCallers : idCall[d].pc = "entered"})
           < MaxAlloc
    /\ idCall' = [idCall EXCEPT ![c] =
                    [pc |-> "entered", api |-> api, client |-> client,
                     id |-> 0, floor |-> maxCompleted]]
    /\ UNCHANGED <<TRANSACTION_IDS, handedOut, nHanded, maxCompleted>>
    /\ UNCHANGED notIdVars

\* let id = TRANSACTION_IDS.fetch_add(1, Relaxed);
transaction_fetch_add(c, api) ==
    /\ idCall[c].pc = "entered"
    /\ idCall[c].api = api
    /\ TRANSACTION_IDS' = fetch_add(TRANSACTION_IDS, 1).stored
    /\ idCall' = [idCall EXCEPT ![c].pc = "allocated",
                                ![c].id = fetch_add(TRANSACTION_IDS, 1).previous]
    /\ handedOut' = handedOut \cup {fetch_add(TRANSACTION_IDS, 1).previous}
    /\ nHanded' = nHanded + 1
    /\ UNCHANGED maxCompleted
    /\ UNCHANGED notIdVars

Client_transaction_fetch_add(c) == transaction_fetch_add(c, "Client")

SyncClient_transaction_fetch_add(c) == transaction_fetch_add(c, "SyncClient")

\* Transaction::new / SyncTransaction::new has returned (a handle or the
\* error of BEGIN) and so has transaction().
transaction_completed(c) ==
    /\ idCall[c].pc = "allocated"
    /\ maxCompleted' = Max(maxCompleted, idCall[c].id)
    /\ idCall' = [idCall EXCEPT ![c] = NoIdCall]
    /\ UNCHANGED <<TRANSACTION_IDS, handedOut, nHanded>>
    /\ UNCHANGED notIdVars

IdNext ==
    \/ \E c \in IdCallers, api \in Apis, client \in ClientInstances :
          transaction_enter(c, api, client)
    \/ \E c \in IdCallers : Client_transaction_fetch_add(c)
    \/ \E c \in IdCallers : SyncClient_transaction_fetch_add(c)
    \/ \E c \in IdCallers : transaction_completed(c)

\* Tasks calling transaction() on the async and the blocking client.
SpecIds == Init /\ [][IdNext]_vars

\* ------------------------------------------------- specification: batches
\* What a raw_batch / batch call leaves alone.
notBatchVars == <<TRANSACTION_IDS, sessionVars, idVars, hranaVars, moreVars>>

\* local.rs raw_batch: the statements in iteration order, each with its
\* params collected in positional order.
local_steps(stmts) ==
    [i \in 1..Len(stmts) |-> [sql |-> stmts[i].sql, args |-> stmts[i].args]]

\* spin.rs raw_batch: the body lists the formatted statements in iteration
\* order, each with its params in positional order.
spin_body(stmts) ==
    [i \in 1..Len(stmts) |-> [sql |-> stmts[i].sql, args |-> stmts[i].args]]

\* The statements raw_batch is called with.
raw_batch_input ==
    IF bApi = "batch" THEN wrap_in_transaction(bStmts) ELSE bStmts

\* raw_batch up to the point where the database gets to see the steps.
raw_batch_call ==
    /\ bPc = "start"
    /\ bSteps' = (IF bBackend = "local" THEN local_steps(raw_batch_input)
                  ELSE IF bBackend = "spin" THEN spin_body(raw_batch_input)
                  ELSE build_steps(raw_batch_input))
    /\ bPc' = "running"
    /\ UNCHANGED <<bBackend, bApi, bStmts, bExecuted, bRaw, bRet>>
    /\ UNCHANGED notBatchVars

\* The position of the next step to run.
NextStep == Len(bExecuted) + 1

\* local.rs raw_batch, one iteration of its loop: prepare, query, rows.
\* A prepare or row error returns Err ("?"); a query error is recorded and
\* leaves the loop (break), so that Ok(BatchResult) is returned at once.
local_raw_batch_step(outcome) ==
    /\ bBackend = "local"
    /\ bPc = "running"
    /\ NextStep <= Len(bSteps)
    /\ bExecuted' = Append(bExecuted,
                           [sql |-> bSteps[NextStep].sql, outcome |-> outcome])
    /\ IF outcome = "prepare_err"
       THEN /\ bRaw' = ErrBatchResult(bSteps[NextStep].sql)
            /\ bPc' = "raw_returned"
       ELSE IF outcome = "query_err"
       THEN /\ bRaw' = OkBatchResult(
                          Append(bRaw.step_results, NoStmtResult),
                          Append(bRaw.step_errors,
                                 SomeStepError(bSteps[NextStep].sql)))
            /\ bPc' = "raw_returned"
       ELSE /\ bRaw' = [bRaw EXCEPT
                          !.step_results =
                              Append(@, SomeStmtResult(bSteps[NextStep].sql)),
                          !.step_errors = Append(@, NoStepError)]
            /\ bPc' = bPc
    /\ UNCHANGED <<bBackend, bApi, bStmts, bSteps, bRet>>
    /\ UNCHANGED notBatchVars

\* local.rs raw_batch: the loop ran out of statements.
local_raw_batch_return ==
    /\ bBackend = "local"
    /\ bPc = "running"
    /\ NextStep > Len(bSteps)
    /\ bRaw' = OkBatchResult(bRaw.step_results, bRaw.step_errors)
    /\ bPc' = "raw_returned"
    /\ UNCHANGED <<bBackend, bApi, bStmts, bSteps, bExecuted, bRet>>
    /\ UNCHANGED notBatchVars

\* The server of a network backend runs the next step of the request; the
\* steps carry no condition, so every one of them is run.
server_step(outcome) ==
    /\ bBackend \in {"http", "spin"}
    /\ bPc = "running"
    /\ NextStep <= Len(bSteps)
    /\ bExecuted' = Append(bExecuted,
                           [sql |-> bSteps[NextStep].sql, outcome |-> outcome])
    /\ UNCHANGED <<bBackend, bApi, bStmts, bPc, bSteps, bRaw, bRet>>
    /\ UNCHANGED notBatchVars

\* The server's answer: one entry per step run, in execution order.
server_results ==
    [i \in 1..Len(bExecuted) |->
        IF bExecuted[i].outcome = "ok"
        THEN SomeStmtResult(bExecuted[i].sql) ELSE NoStmtResult]
server_errors ==
    [i \in 1..Len(bExecuted) |->
        IF bExecuted[i].outcome = "ok"
        THEN NoStepError ELSE SomeStepError(bExecuted[i].sql)]

\* http.rs raw_batch from the response on: a failed send or a response that
\* is not one Batch result is an Err, otherwise the server's BatchResult is
\* returned as it is.
http_raw_batch_return(exchange) ==
    /\ bBackend = "http"
    /\ bPc = "running"
    /\ NextStep > Len(bSteps)
    /\ bRaw' = (IF exchange = "ok"
                THEN OkBatchResult(server_results, server_errors)
                ELSE ErrBatchResult(exchange))
    /\ bPc' = "raw_returned"
    /\ UNCHANGED <<bBackend, bApi, bStmts, bSteps, bExecuted, bRet>>
    /\ UNCHANGED notBatchVars

\* parse_query_result: an object with "error" holding a string message, an
\* object with "results" holding columns and rows, or an Err for anything
\* else.
parse_query_result(result) ==
    IF result.kind = "results"
    THEN [err |-> FALSE, step_result |-> SomeStmtResult(result.stmt),
          step_error |-> NoStepError]
    ELSE IF result.kind = "error"
    THEN [err |-> FALSE, step_result |-> NoStmtResult,
          step_error |-> SomeStepError(result.stmt)]
    ELSE [err |-> TRUE, step_result |-> NoStmtResult,
          step_error |-> NoStepError]

\* The JSON array the spin server answers with: a "results" object or an
\* "error" object per statement.
spin_response ==
    [array |-> TRUE,
     items |-> [i \in 1..Len(bExecuted) |->
                  [kind |-> IF bExecuted[i].outcome = "ok"
                            THEN "results" ELSE "error",
                   stmt |-> bExecuted[i].sql]]]

http_json_to_batch_result_NoCount(response_json, stmts_count) ==
    LET results == response_json.items
    IN  IF ~response_json.array THEN ErrBatchResult("not_array")
        ELSE IF \E i \in 1..Len(results) : parse_query_result(results[i]).err
        THEN ErrBatchResult("parse_err")
        ELSE OkBatchResult(
            [i \in 1..Len(results) |-> parse_query_result(results[i]).step_result],
            [i \in 1..Len(results) |-> parse_query_result(results[i]).step_error])

\* http_json_to_batch_result(response_json, stmts_count).
http_json_to_batch_result(response_json, stmts_count) ==
    LET results == response_json.items
    IN  IF ~response_json.array THEN ErrBatchResult("not_array")
        ELSE IF Len(results) /= stmts_count THEN ErrBatchResult("wrong_count")
        ELSE IF \E i \in 1..Len(results) : parse_query_result(results[i]).err
        THEN ErrBatchResult("parse_err")
        ELSE OkBatchResult(
            [i \in 1..Len(results) |-> parse_query_result(results[i]).step_result],
            [i \in 1..Len(results) |-> parse_query_result(results[i]).step_error])

\* spin.rs raw_batch from the response on.
spin_raw_batch_return(exchange) ==
    /\ bBackend = "spin"
    /\ bPc = "running"
    /\ NextStep > Len(bSteps)
    /\ bRaw' = (IF exchange = "ok"
                THEN http_json_to_batch_result(spin_response, Len(bSteps))
                ELSE ErrBatchResult(exchange))
    /\ bPc' = "raw_returned"
    /\ UNCHANGED <<bBackend, bApi, bStmts, bSteps, bExecuted, bRet>>
    /\ UNCHANGED notBatchVars

\* batch, from the return of raw_batch on.
batch_return ==
    /\ bApi = "batch"
    /\ bPc = "raw_returned"
    /\ bRet' = batch_return_value(bRaw)
    /\ bPc' = "done"
    /\ UNCHANGED <<bBackend, bApi, bStmts, bSteps, bExecuted, bRaw>>
    /\ UNCHANGED notBatchVars

\* A caller is about to call raw_batch or batch with up to MaxStmts
\* statements on a client of one of the backends.
BatchInit ==
    /\ SessionInit
    /\ backend = "http"
    /\ IdInit
    /\ HranaInit
    /\ MoreIdle
    /\ bBackend \in BatchBackends
    /\ bApi \in BatchApis
    /\ bStmts \in CallerStatementLists
    /\ bPc = "start"
    /\ bSteps = <<>>
    /\ bExecuted = <<>>
    /\ bRaw = PendingBatchResult
    /\ bRet = NoBatchReturn

BatchNext ==
    \/ raw_batch_call
    \/ \E outcome \in {"ok", "query_err", "prepare_err"} :
          local_raw_batch_step(outcome)
    \/ local_raw_batch_return
    \/ \E outcome \in {"ok", "query_err"} : server_step(outcome)
    \/ \E exchange \in {"ok", "send_err", "response_err"} :
          http_raw_batch_return(exchange)
    \/ \E exchange \in {"ok", "send_err", "parse_err"} :
          spin_raw_batch_return(exchange)
    \/ batch_return

\* One raw_batch or batch call, on each backend.
SpecBatch == BatchInit /\ [][BatchNext]_vars

\* ---------------------------------------- specification: WebSocket backend
\* What a call on the hrana client leaves alone.
notHranaVars == <<TRANSACTION_IDS, sessionVars, idVars, batchVars, moreVars>>

\* The rest of execute_in_transaction / commit_transaction /
\* rollback_transaction of task c once it holds stream, the map being
\* streams: commit and rollback drop the entry first, then the statement is
\* handed to stream.execute.
hrana_execute_on(c, tx_id, kind, stream, streams) ==
    /\ streams_for_transactions' =
          (IF kind \in Terminal
           THEN drop_stream_for_transaction(streams, tx_id)
           ELSE streams)
    /\ hCall' = [hCall EXCEPT ![c] =
                    [pc |-> "executing", tx_id |-> tx_id, kind |-> kind,
                     stream |-> stream]]
    /\ hUsed' = [hUsed EXCEPT ![tx_id] = @ \cup {stream}]

\* execute_in_transaction / commit_transaction / rollback_transaction of
\* task c up to its first await: stream_for_transaction either finds the
\* stream of tx_id or calls open_stream.
hrana_call(c, tx_id, kind) ==
    /\ hCall[c].pc = "idle"
    /\ IF fast_path(streams_for_transactions, tx_id)
       THEN /\ hrana_execute_on(c, tx_id, kind,
                                streams_for_transactions[tx_id],
                                streams_for_transactions)
            /\ UNCHANGED hOpens
       ELSE /\ hCall' = [hCall EXCEPT ![c] =
                           [pc |-> "opening", tx_id |-> tx_id, kind |-> kind,
                            stream |-> NoStream]]
            /\ hOpens' = [hOpens EXCEPT ![tx_id] = Append(@, kind)]
            /\ UNCHANGED <<streams_for_transactions, hUsed>>
    /\ UNCHANGED hNextStream
    /\ UNCHANGED notHranaVars

\* stream_for_transaction from the return of open_stream on: an error ends
\* the call ("?"); otherwise the stream is inserted if the key is vacant and
\* the call goes on with the stream it opened.
open_stream_return(c, ok) ==
    /\ hCall[c].pc = "opening"
    /\ IF ok
       THEN /\ hrana_execute_on(c, hCall[c].tx_id, hCall[c].kind,
                   stream_returned(
                       insert_if_vacant(streams_for_transactions,
                                        hCall[c].tx_id, hNextStream),
                       hCall[c].tx_id, hNextStream),
                   insert_if_vacant(streams_for_transactions,
                                    hCall[c].tx_id, hNextStream))
            /\ hNextStream' = hNextStream + 1
            /\ UNCHANGED hHandle
       ELSE /\ hCall' = [hCall EXCEPT ![c] = NoHCall]
            /\ hHandle' = (IF hCall[c].kind = "BEGIN"
                           THEN [hHandle EXCEPT ![hCall[c].tx_id] =
                                    NewHandle("ErrTransport")]
                           ELSE hHandle)
            /\ UNCHANGED <<streams_for_transactions, hUsed, hNextStream>>
    /\ UNCHANGED <<hExec, hOpens>>
    /\ UNCHANGED notHranaVars

\* stream.execute(stmt) has returned and so has the call; Transaction::new
\* yields the handle when its BEGIN returned Ok.
stream_execute_return(c, ok) ==
    /\ hCall[c].pc = "executing"
    /\ hCall' = [hCall EXCEPT ![c] = NoHCall]
    /\ hHandle' = (IF hCall[c].kind = "BEGIN"
                   THEN [hHandle EXCEPT ![hCall[c].tx_id] =
                            NewHandle(IF ok THEN "Ok" ELSE "ErrServer")]
                   ELSE hHandle)
    /\ UNCHANGED <<streams_for_transactions, hExec, hOpens, hUsed,
                   hNextStream>>
    /\ UNCHANGED notHranaVars

\* Transaction::new(client, t), by the task that owns id t.
HTransaction_new(t) ==
    /\ hHandle[t] = "none"
    /\ hOpens[t] = <<>>
    /\ hrana_call(t, t, "BEGIN")
    /\ UNCHANGED <<hHandle, hExec>>

\* Transaction::execute on the handle of t.
HTransaction_execute(t) ==
    /\ hHandle[t] = "live"
    /\ hExec[t] < MaxExec
    /\ hExec' = [hExec EXCEPT ![t] = @ + 1]
    /\ hrana_call(t, t, "EXEC")
    /\ UNCHANGED hHandle

\* Transaction::commit(self) / Transaction::rollback(self) on the handle.
HTransaction_finish(t, kind) ==
    /\ hHandle[t] = "live"
    /\ hHandle' = [hHandle EXCEPT ![t] = HandleAfterTerminal]
    /\ hrana_call(t, t, kind)
    /\ UNCHANGED hExec

HranaNext ==
    \/ \E t \in HTxIds : HTransaction_new(t)
    \/ \E t \in HTxIds : HTransaction_execute(t)
    \/ \E t \in HTxIds, kind \in Terminal : HTransaction_finish(t, kind)
    \/ \E c \in HTxIds, ok \in BOOLEAN : open_stream_return(c, ok)
    \/ \E c \in HTxIds, ok \in BOOLEAN : stream_execute_return(c, ok)

HranaSpecInit ==
    /\ SessionInit
    /\ backend = "http"
    /\ IdInit
    /\ BatchIdle
    /\ HranaInit
    /\ MoreIdle

\* Each transaction id is used by one task, one call at a time, through its
\* Transaction handle.
SpecHrana == HranaSpecInit /\ [][HranaNext]_vars

\* A task calls Transaction::new(client, tx_id) or execute_in_transaction
\* with an id that other tasks may be using at the same time.
shared_id_call(c, tx_id, kind) ==
    /\ hExec[c] < MaxExec
    /\ hExec' = [hExec EXCEPT ![c] = @ + 1]
    /\ hrana_call(c, tx_id, kind)
    /\ UNCHANGED hHandle

HranaRaceNext ==
    \/ \E c \in HTxIds, tx_id \in HTxIds, kind \in {"BEGIN", "EXEC"} :
          shared_id_call(c, tx_id, kind)
    \/ \E c \in HTxIds, ok \in BOOLEAN : open_stream_return(c, ok)
    \/ \E c \in HTxIds, ok \in BOOLEAN : stream_execute_return(c, ok)

\* Tasks using the same transaction id concurrently.
SpecHranaRace == HranaSpecInit /\ [][HranaRaceNext]_vars

\* ----------------------------------------- decoding a pipeline response
notPureVars == <<TRANSACTION_IDS, sessionVars, idVars, batchVars, hranaVars,
                 lockVars, localVars>>

\* What a pipeline::Response can be.
ResponseKinds == {"OkExecute", "OkBatch", "OkClose", "Error"}

RECURSIVE SeqsUpTo(_, _)
SeqsUpTo(S, n) ==
    IF n = 0 THEN {<<>>}
    ELSE LET shorter == SeqsUpTo(S, n - 1)
         IN  shorter \cup {Append(q, x) : q \in {r \in shorter : Len(r) = n - 1},
                                           x \in S}

DecodeInputs ==
    [fn : {"execute", "raw_batch"}, tx_id : {0, 1}, baton : OptBaton,
     results : SeqsUpTo(ResponseKinds, MaxResults)]

\* The part of execute_inner / raw_batch that follows a successful send.
decode_response(in) ==
    IF in.fn = "execute"
    THEN ExecuteResult(in.tx_id, [baton |-> in.baton, base_url |-> None,
                                  results |-> in.results])
    ELSE DecodeBatch(in.results)

decode_return ==
    /\ pOut = NoInput
    /\ pIn.fn \in {"execute", "raw_batch"}
    /\ pOut' = [fn |-> pIn.fn, ret |-> decode_response(pIn)]
    /\ UNCHANGED pIn
    /\ UNCHANGED notPureVars

DecodeInit ==
    /\ SessionInit
    /\ backend = "http"
    /\ IdInit
    /\ BatchIdle
    /\ HranaInit
    /\ LockIdle
    /\ LocalIdle
    /\ pIn \in DecodeInputs
    /\ pOut = NoInput

DecodeNext == decode_return

\* A response with any list of results, decoded by execute or by raw_batch.
SpecDecode == DecodeInit /\ [][DecodeNext]_vars

\* -------------------------------------- decoding a legacy JSON response
JsonEntries == [kind : {"results", "error", "malformed"}, stmt : {"s1", "s2"}]

\* serde_json::Value of the response: an array of entries, or another value.
JsonValues == [array : BOOLEAN, items : SeqsUpTo(JsonEntries, MaxStmts)]

JsonInputs ==
    [fn : {"http_json_to_batch_result"}, response_json : JsonValues,
     stmts_count : 0..MaxStmts]

json_return ==
    /\ pOut = NoInput
    /\ pIn.fn = "http_json_to_batch_result"
    /\ pOut' = [fn |-> pIn.fn,
                ret |-> http_json_to_batch_result(pIn.response_json,
                                                  pIn.stmts_count)]
    /\ UNCHANGED pIn
    /\ UNCHANGED notPureVars

JsonInit ==
    /\ SessionInit
    /\ backend = "http"
    /\ IdInit
    /\ BatchIdle
    /\ HranaInit
    /\ LockIdle
    /\ LocalIdle
    /\ pIn \in JsonInputs
    /\ pOut = NoInput

JsonNext == json_return

\* Any parsed JSON response handed to http_json_to_batch_result with any
\* statement count.
SpecJson == JsonInit /\ [][JsonNext]_vars

\* -------------------------------- transactions on the embedded backend
notLocalVars == <<TRANSACTION_IDS, sessionVars, idVars, batchVars, hranaVars,
                  lockVars, pureVars>>

LocalSql == {"BEGIN", "COMMIT", "ROLLBACK", "s1", "bad"}
LocalTxIds == {0, 1, 2}

\* What SQLite does with one statement on the connection: BEGIN inside a
\* transaction and COMMIT / ROLLBACK outside of one fail, "bad" does not
\* prepare, anything else runs.
conn_run(conn, sql) ==
    IF sql = "bad" THEN [conn |-> conn, outcome |-> "prepare_err"]
    ELSE IF sql = "BEGIN"
    THEN IF conn.in_tx THEN [conn |-> conn, outcome |-> "query_err"]
         ELSE [conn |-> [in_tx |-> TRUE, log |-> Append(conn.log, sql)],
               outcome |-> "ok"]
    ELSE IF sql \in {"COMMIT", "ROLLBACK"}
    THEN IF conn.in_tx
         THEN [conn |-> [in_tx |-> FALSE, log |-> Append(conn.log, sql)],
               outcome |-> "ok"]
         ELSE [conn |-> conn, outcome |-> "query_err"]
    ELSE [conn |-> [conn EXCEPT !.log = Append(@, sql)], outcome |-> "ok"]

\* execute: raw_batch of the one statement, then the first entry of the
\* result as Ok(ResultSet) or Err(Misuse(message)); a prepare error is
\* raw_batch's own Err.
local_execute(conn, sql) ==
    LET r == conn_run(conn, sql)
    IN  [conn |-> r.conn,
         ret |-> IF r.outcome = "ok"
                 THEN [status |-> "Ok", value |-> sql]
                 ELSE [status |-> "Err", value |-> r.outcome]]

local_execute_in_transaction_NeedsTx(conn, tx_id, sql) ==
    IF conn.in_tx /\ tx_id > 0 THEN local_execute(conn, sql)
    ELSE [conn |-> conn, ret |-> [status |-> "Err", value |-> "no_tx"]]

\* execute_in_transaction(&self, _tx_id, stmt).
local_execute_in_transaction(conn, tx_id, sql) == local_execute(conn, sql)

\* .map(|_| ()) on a Result<ResultSet>.
map_unit(r) ==
    [conn |-> r.conn,
     ret |-> IF r.ret.status = "Ok" THEN [status |-> "Ok", value |-> "()"]
             ELSE r.ret]

\* commit_transaction(&self, _tx_id) / rollback_transaction(&self, _tx_id).
local_commit_transaction(conn, tx_id) == map_unit(local_execute(conn, "COMMIT"))
local_rollback_transaction(conn, tx_id) ==
    map_unit(local_execute(conn, "ROLLBACK"))

\* The statement a call runs.
LocalSqlOf(api, sql) ==
    IF api = "commit_transaction" THEN "COMMIT"
    ELSE IF api = "rollback_transaction" THEN "ROLLBACK"
    ELSE sql

\* One call on the client. The methods are synchronous functions: a call
\* runs from entry to return without a suspension point.
local_call(api, tx_id, sql, r) ==
    /\ lN < MaxLocalCalls
    /\ lN' = lN + 1
    /\ lConn' = r.conn
    /\ lLast' = [api |-> api, tx_id |-> tx_id, sql |-> LocalSqlOf(api, sql),
                 before |-> lConn, ret |-> r.ret]
    /\ UNCHANGED notLocalVars

Local_execute(sql) ==
    local_call("execute", 0, sql, local_execute(lConn, sql))
Local_execute_in_transaction(tx_id, sql) ==
    local_call("execute_in_transaction", tx_id, sql,
               local_execute_in_transaction(lConn, tx_id, sql))
Local_commit_transaction(tx_id) ==
    local_call("commit_transaction", tx_id, "-",
               local_commit_transaction(lConn, tx_id))
Local_rollback_transaction(tx_id) ==
    local_call("rollback_transaction", tx_id, "-",
               local_rollback_transaction(lConn, tx_id))

LocalNext ==
    \/ \E sql \in LocalSql : Local_execute(sql)
    \/ \E tx_id \in LocalTxIds, sql \in LocalSql :
          Local_execute_in_transaction(tx_id, sql)
    \/ \E tx_id \in LocalTxIds : Local_commit_transaction(tx_id)
    \/ \E tx_id \in LocalTxIds : Local_rollback_transaction(tx_id)

LocalInit ==
    /\ SessionInit
    /\ backend = "http"
    /\ IdInit
    /\ BatchIdle
    /\ HranaInit
    /\ LockIdle
    /\ PureIdle
    /\ LocalIdle

\* Callers of the embedded client, with and without transaction ids.
SpecLocal == LocalInit /\ [][LocalNext]_vars

\* --------------------- row counts and rowid on the embedded backend
\* What the parser makes of one command of the SQL text.
CmdKinds == {"Insert", "Update", "Delete", "Select", "Create", "ParseError"}
Rowids == {0, 5}
NoRowid == [some |-> FALSE, value |-> 0]
SomeRowid(v) == [some |-> TRUE, value |-> v]

Parser_last_First(cmds) ==
    IF \E i \in 1..Len(cmds) : cmds[i] = "ParseError" THEN "Err"
    ELSE IF Len(cmds) = 0 THEN "None"
    ELSE cmds[1]

\* Parser::new(sql).last(): runs the parser over the whole text; Err at the
\* first command that does not parse, otherwise the last command, or None
\* for a text without a command.
Parser_last(cmds) ==
    IF \E i \in 1..Len(cmds) : cmds[i] = "ParseError" THEN "Err"
    ELSE IF Len(cmds) = 0 THEN "None"
    ELSE cmds[Len(cmds)]

last_insert_rowid_of(cmd, conn_rowid) ==
    IF cmd = "Insert" THEN SomeRowid(conn_rowid) ELSE NoRowid

affected_row_count_of(cmd, conn_changes) ==
    IF cmd \in {"Insert", "Update", "Delete"} THEN conn_changes ELSE 0

\* The StmtResult raw_batch builds for a statement that ran.
local_stmt_result(in) ==
    [affected_row_count |-> affected_row_count_of(Parser_last(in.cmds), in.changes),
     last_insert_rowid |-> last_insert_rowid_of(Parser_last(in.cmds), in.rowid)]

SniffInputs ==
    [fn : {"local_stmt_result"}, cmds : SeqsUpTo(CmdKinds, MaxCmds),
     changes : 0..MaxChanges, rowid : Rowids]

sniff_return ==
    /\ pOut = NoInput
    /\ pIn.fn = "local_stmt_result"
    /\ pOut' = [fn |-> pIn.fn, ret |-> local_stmt_result(pIn)]
    /\ UNCHANGED pIn
    /\ UNCHANGED notPureVars

SniffInit ==
    /\ SessionInit
    /\ backend = "http"
    /\ IdInit
    /\ BatchIdle
    /\ HranaInit
    /\ LockIdle
    /\ LocalIdle
    /\ pIn \in SniffInputs
    /\ pOut = NoInput

SniffNext == sniff_return

\* A statement that ran on the embedded connection, with any SQL text and
\* any values of the connection's changes() and last_insert_rowid().
SpecSniff == SniffInit /\ [][SniffNext]_vars

\* ------------------------------------- specification: pop_query_param
\* A pair of a URL's query string as it is written: "key=value" in the
\* form the form-urlencoded serializer writes ("canonical": a space is
\* "+"), with the space written "%20" ("percent"), or a key without "="
\* ("bare", its value is empty).
QueryKeys == {"p", "q"}
QueryValues == {"v", "x y"}
RawPairs ==
    [key : QueryKeys, value : QueryValues, form : {"canonical"}]
    \cup [key : QueryKeys, value : {"x y"}, form : {"percent"}]
    \cup [key : QueryKeys, value : {""}, form : {"bare"}]
\* Url::query(): None, or Some(the text after "?").
NoQuery == [some |-> FALSE, raw |-> <<>>]
SomeQuery(raw) == [some |-> TRUE, raw |-> raw]
NoParam == [some |-> FALSE, value |-> ""]
SomeParam(v) == [some |-> TRUE, value |-> v]

\* Url::query_pairs(): the decoded (key, value) pairs, in order; none for a
\* URL without query.
query_pairs(url) ==
    [i \in 1..Len(url.query.raw) |->
        [key |-> url.query.raw[i].key, value |-> url.query.raw[i].value]]

\* Iterator::position: the index of the first pair whose key is param, 0
\* for None.
RECURSIVE position_from(_, _, _)
position_from(pairs, param, i) ==
    IF i > Len(pairs) THEN 0
    ELSE IF pairs[i].key = param THEN i
    ELSE position_from(pairs, param, i + 1)

position(pairs, param) == position_from(pairs, param, 1)

\* Vec::swap_remove(idx): the last element takes the place of element idx.
swap_remove(pairs, idx) ==
    [i \in 1..(Len(pairs) - 1) |->
        IF i = idx THEN pairs[Len(pairs)] ELSE pairs[i]]

\* url.query_pairs_mut().clear().extend_pairs(pairs): query_pairs_mut gives
\* the URL a query if it has none, clear empties it, and every pair is
\* written as "key=value" in the serializer's encoding.
extend_pairs(pairs) ==
    SomeQuery([i \in 1..Len(pairs) |->
                  [key |-> pairs[i].key, value |-> pairs[i].value,
                   form |-> "canonical"]])

pop_query_param(url, param) ==
    LET pairs == query_pairs(url)
        idx == position(pairs, param)
    IN  [value |-> IF idx = 0 THEN NoParam ELSE SomeParam(pairs[idx].value),
         url |-> [query |-> extend_pairs(IF idx = 0 THEN pairs
                                         ELSE swap_remove(pairs, idx))]]

PopInputs ==
    [fn : {"pop_query_param"},
     url : [query : {NoQuery} \cup {SomeQuery(raw) : raw \in SeqsUpTo(RawPairs, MaxPairs)}],
     param : {"p", "ohno"}]

pop_query_param_return ==
    /\ pOut = NoInput
    /\ pIn.fn = "pop_query_param"
    /\ pOut' = [fn |-> pIn.fn, ret |-> pop_query_param(pIn.url, pIn.param)]
    /\ UNCHANGED pIn
    /\ UNCHANGED notPureVars

PopInit ==
    /\ SessionInit
    /\ backend = "http"
    /\ IdInit
    /\ BatchIdle
    /\ HranaInit
    /\ LockIdle
    /\ LocalIdle
    /\ pIn \in PopInputs
    /\ pOut = NoInput

PopNext == pop_query_param_return

\* pop_query_param on every URL of up to MaxPairs query pairs.
SpecPop == PopInit /\ [][PopNext]_vars

\* ------------------------- specification: execute on the embedded backend
\* What SQLite does with one statement of the loop: prepare fails, query
\* fails, fetching a row fails, or the statement runs.
RunOutcomes == {"prepare_err", "query_err", "row_err", "ok"}
Runs == [sql : {"s1", "s2"}, outcome : RunOutcomes]

push_query_error_ErrorOnly(raw, sql) ==
    [raw EXCEPT !.step_errors = Append(@, SomeStepError(sql))]

\* Err(e) of stmt.query: step_results.push(None);
\* step_errors.push(Some(Error { message })).
push_query_error(raw, sql) ==
    [raw EXCEPT !.step_results = Append(@, NoStmtResult),
                !.step_errors = Append(@, SomeStepError(sql))]

\* The end of a loop iteration that ran its statement:
\* step_results.push(Some(stmt_result)); step_errors.push(None).
push_stmt_result(raw, sql) ==
    [raw EXCEPT !.step_results = Append(@, SomeStmtResult(sql)),
                !.step_errors = Append(@, NoStepError)]

\* local.rs raw_batch, from statement i on: prepare(..)? and rows.next()?
\* return the Err, a query error is pushed and breaks out of the loop, and
\* after the loop Ok(BatchResult) is returned.
RECURSIVE local_raw_batch_from(_, _, _)
local_raw_batch_from(runs, i, raw) ==
    IF i > Len(runs) THEN raw
    ELSE IF runs[i].outcome \in {"prepare_err", "row_err"}
    THEN ErrBatchResult(runs[i].outcome)
    ELSE IF runs[i].outcome = "query_err"
    THEN push_query_error(raw, runs[i].sql)
    ELSE local_raw_batch_from(runs, i + 1, push_stmt_result(raw, runs[i].sql))

local_raw_batch(runs) == local_raw_batch_from(runs, 1, OkBatchResult(<<>>, <<>>))

\* slice::first(): Some(&element 0), or None for an empty slice.
first(list) ==
    IF Len(list) = 0 THEN [present |-> FALSE, value |-> NoStmtResult]
    ELSE [present |-> TRUE, value |-> list[1]]

\* execute: raw_batch(iter::once(stmt))?, then the match on the two first
\* entries; any other shape runs into unreachable!().
local_execute_once(runs) ==
    LET results == local_raw_batch(runs)
        r == first(results.step_results)
        e == first(results.step_errors)
    IN  IF results.status = "Err"
        THEN [status |-> "Err", value |-> results.err]
        ELSE IF r.present /\ r.value.some /\ e.present /\ ~e.value.some
        THEN [status |-> "Ok", value |-> r.value.stmt]
        ELSE IF r.present /\ ~r.value.some /\ e.present /\ e.value.some
        THEN [status |-> "Err", value |-> "Misuse"]
        ELSE [status |-> "unreachable", value |-> "-"]

\* execute is called with one statement; raw_batch with any number.
LocalExecInputs ==
    {[fn |-> "local_execute", runs |-> <<r>>] : r \in Runs}
    \cup {[fn |-> "local_raw_batch", runs |-> q] : q \in SeqsUpTo(Runs, MaxStmts)}

local_execute_return ==
    /\ pOut = NoInput
    /\ pIn.fn = "local_execute"
    /\ pOut' = [fn |-> pIn.fn, ret |-> local_execute_once(pIn.runs)]
    /\ UNCHANGED pIn
    /\ UNCHANGED notPureVars

local_raw_batch_fn_return ==
    /\ pOut = NoInput
    /\ pIn.fn = "local_raw_batch"
    /\ pOut' = [fn |-> pIn.fn, ret |-> local_raw_batch(pIn.runs)]
    /\ UNCHANGED pIn
    /\ UNCHANGED notPureVars

LocalExecInit ==
    /\ SessionInit
    /\ backend = "http"
    /\ IdInit
    /\ BatchIdle
    /\ HranaInit
    /\ LockIdle
    /\ LocalIdle
    /\ pIn \in LocalExecInputs
    /\ pOut = NoInput

LocalExecNext == local_execute_return \/ local_raw_batch_fn_return

\* One execute or raw_batch call on the embedded backend, for every
\* behaviour of SQLite on its statements.
SpecLocalExec == LocalExecInit /\ [][LocalExecNext]_vars

\* ------------------------------------ rows of a ResultSet and their names
\* Col.name: Some(name) or None.
ColNames == {"a", "b", None}
CellValues == {1, 2}

\* c.name.unwrap_or_default(): the empty string for a column without name.
unwrap_or_default(name) == IF name = None THEN "" ELSE name

columns_of(cols) == [i \in 1..Len(cols) |-> unwrap_or_default(cols[i])]

\* HashMap::insert: a later value for a key replaces the earlier one.
RECURSIVE collect_map(_, _, _)
collect_map(columns, values, n) ==
    IF n = 0 THEN <<>>
    ELSE LET m == collect_map(columns, values, n - 1)
         IN  [k \in DOMAIN m \cup {columns[n]} |->
                IF k = columns[n] THEN values[n] ELSE m[k]]

\* The Row built for one row of the StmtResult, with the name -> value map
\* of the feature mapping_names_to_values_in_rows.
Row_from(columns, values) ==
    [values |-> values, value_map |-> collect_map(columns, values, Len(columns))]

\* From<proto::StmtResult> for ResultSet, for a result of one row.
ResultSet_from_StmtResult(in) ==
    [columns |-> columns_of(in.cols),
     row |-> Row_from(columns_of(in.cols), in.values)]

NoValue == [some |-> FALSE, value |-> 0]
SomeValue(v) == [some |-> TRUE, value |-> v]

\* Row::try_column(col): the map's value for the name, or an Err.
try_column(row, col) ==
    IF col \in DOMAIN row.value_map THEN SomeValue(row.value_map[col])
    ELSE NoValue

RowInputs ==
    {in \in [fn : {"ResultSet_from"}, cols : SeqsUpTo(ColNames, MaxCols),
              values : SeqsUpTo(CellValues, MaxCols)] :
        Len(in.cols) = Len(in.values)}

row_return ==
    /\ pOut = NoInput
    /\ pIn.fn = "ResultSet_from"
    /\ pOut' = [fn |-> pIn.fn, ret |-> ResultSet_from_StmtResult(pIn)]
    /\ UNCHANGED pIn
    /\ UNCHANGED notPureVars

RowInit ==
    /\ SessionInit
    /\ backend = "http"
    /\ IdInit
    /\ BatchIdle
    /\ HranaInit
    /\ LockIdle
    /\ LocalIdle
    /\ pIn \in RowInputs
    /\ pOut = NoInput

RowNext == row_return

\* A StmtResult of one row with any column names, converted to a ResultSet.
SpecRow == RowInit /\ [][RowNext]_vars

\* ------------------------------- values through the legacy JSON codec
\* proto::Value. An f64 is named by its shortest decimal text; "inf" and
\* "NaN" are the non-finite ones.
MkValue(variant, i, str, bytes) ==
    [variant |-> variant, i |-> i, s |-> str, b |-> bytes]
ValueNull == MkValue("Null", 0, "", <<>>)
ValueInteger(n) == MkValue("Integer", n, "", <<>>)
ValueFloat(d) == MkValue("Float", 0, d, <<>>)
ValueText(t) == MkValue("Text", 0, t, <<>>)
ValueBlob(bytes) == MkValue("Blob", 0, "", bytes)

FiniteFloats == {"0.0", "1.5", "-2.0"}
Floats == FiniteFloats \cup {"inf", "NaN"}
Values ==
    {ValueNull}
        \cup {ValueInteger(n) : n \in {-1, 0, 1}}
        \cup {ValueFloat(d) : d \in Floats}
        \cup {ValueText(t) : t \in {"", "a", "1", "0.0"}}
        \cup {ValueBlob(bytes) : bytes \in {<<>>, <<0>>, <<255, 0>>}}

\* serde_json::Value of a cell: null, a number held as an integer or as a
\* float, a string, or an object with one key.
MkJson(t, i, str, key, b64) ==
    [t |-> t, i |-> i, s |-> str, key |-> key, b64 |-> b64]
NoBase64 == [engine |-> "none", data |-> <<>>]
JsonNull == MkJson("null", 0, "", "", NoBase64)
JsonInt(n) == MkJson("int", n, "", "", NoBase64)
JsonFloat(d) == MkJson("float", 0, d, "", NoBase64)
JsonString(t) == MkJson("string", 0, t, "", NoBase64)
JsonObject(key, b64) == MkJson("object", 0, "", key, b64)

\* BASE64_STANDARD_NO_PAD.encode / .decode.
base64_encode(bytes) == [engine |-> "STANDARD_NO_PAD", data |-> bytes]
base64_decode(b64) ==
    IF b64.engine = "STANDARD_NO_PAD"
    THEN [ok |-> TRUE, bytes |-> b64.data]
    ELSE [ok |-> FALSE, bytes |-> <<>>]

\* serde_json's value of an f64: a float number, or null when not finite.
json_of_f64(d) == IF d \in FiniteFloats THEN JsonFloat(d) ELSE JsonNull

\* serde_json::json!(p)["value"]: the "value" field of the serialized
\* Value, null when there is none. The Serialize impl of proto::Value
\* belongs to hrana_client_proto; int_as is what it writes for an i64, a
\* JSON number or a JSON string of its decimal digits.
IntDigits(n) == IF n = 0 THEN "0" ELSE IF n = 1 THEN "1" ELSE "-1"
json_value_field(p, int_as) ==
    IF p.variant = "Integer"
    THEN (IF int_as = "number" THEN JsonInt(p.i) ELSE JsonString(IntDigits(p.i)))
    ELSE IF p.variant = "Float" THEN json_of_f64(p.s)
    ELSE IF p.variant = "Text" THEN JsonString(p.s)
    ELSE JsonNull

\* One element of "args" as Display for Statement writes it.
display_arg(p, int_as) ==
    IF p.variant = "Blob" THEN JsonObject("base64", base64_encode(p.b))
    ELSE json_value_field(p, int_as)

ParseErr == [ok |-> FALSE, value |-> ValueNull]
ParseOk(v) == [ok |-> TRUE, value |-> v]

\* parse_value: as_i64 is Some for a number held as an integer, None for
\* one held as a float.
parse_value(cell) ==
    IF cell.t = "null" THEN ParseOk(ValueNull)
    ELSE IF cell.t = "int" THEN ParseOk(ValueInteger(cell.i))
    ELSE IF cell.t = "float" THEN ParseOk(ValueFloat(cell.s))
    ELSE IF cell.t = "string" THEN ParseOk(ValueText(cell.s))
    ELSE IF cell.key /= "base64" THEN ParseErr
    ELSE IF base64_decode(cell.b64).ok
    THEN ParseOk(ValueBlob(base64_decode(cell.b64).bytes))
    ELSE ParseErr

\* The args of a Statement written by Display, read back as JSON cells and
\* decoded cell by cell.
codec_round_trip(in) ==
    [i \in 1..Len(in.args) |-> parse_value(display_arg(in.args[i], in.int_as))]

CodecInputs ==
    [fn : {"codec_round_trip"}, args : SeqsUpTo(Values, MaxArgs),
     int_as : {"number", "string"}]

codec_return ==
    /\ pOut = NoInput
    /\ pIn.fn = "codec_round_trip"
    /\ pOut' = [fn |-> pIn.fn, ret |-> codec_round_trip(pIn)]
    /\ UNCHANGED pIn
    /\ UNCHANGED notPureVars

CodecInit ==
    /\ SessionInit
    /\ backend = "http"
    /\ IdInit
    /\ BatchIdle
    /\ HranaInit
    /\ LockIdle
    /\ LocalIdle
    /\ pIn \in CodecInputs
    /\ pOut = NoInput

CodecNext == codec_return

\* Statement arguments of every variant written and read back.
SpecCodec == CodecInit /\ [][CodecNext]_vars

\* ------------------------------------------ de::from_row, one field
\* The type of a target field: a supported base type inside depth layers
\* of Option.
DeBaseTypes == {"String", "i64", "f64", "bool", "Vec<u8>", "()"}
DeTypes == [base : DeBaseTypes, depth : 0..MaxOptionDepth]

\* What a field decodes to: layers of Some / None, then the base value.
DeErr == [ok |-> FALSE, layers |-> <<>>, kind |-> "err", val |-> ValueNull]
DeOk(kind, val) == [ok |-> TRUE, layers |-> <<>>, kind |-> kind, val |-> val]
DeNone == [ok |-> TRUE, layers |-> <<"None">>, kind |-> "none", val |-> ValueNull]
DeSome(r) == IF r.ok THEN [r EXCEPT !.layers = <<"Some">> \o @] ELSE r

\* deserialize_any: the visitor method called for the cell.
deserialize_any(cell) ==
    IF cell.variant = "Text" THEN "visit_string"
    ELSE IF cell.variant = "Null" THEN "visit_unit"
    ELSE IF cell.variant = "Integer" THEN "visit_i64"
    ELSE IF cell.variant = "Float" THEN "visit_f64"
    ELSE "visit_seq"

\* serde's visitors of the base types: String takes a string, i64 an
\* integer, f64 an integer or a float, Vec<u8> a sequence, () a unit.
visit(base, method, cell) ==
    IF base = "String" /\ method = "visit_string" THEN DeOk("String", cell)
    ELSE IF base = "i64" /\ method = "visit_i64" THEN DeOk("i64", cell)
    ELSE IF base = "f64" /\ method \in {"visit_i64", "visit_f64"}
    THEN DeOk("f64", cell)
    ELSE IF base = "Vec<u8>" /\ method = "visit_seq" THEN DeOk("Vec<u8>", cell)
    ELSE IF base = "()" /\ method = "visit_unit" THEN DeOk("()", cell)
    ELSE DeErr

DeTrue == DeOk("bool", ValueInteger(1))
DeFalse == DeOk("bool", ValueInteger(0))

deserialize_bool_NonZero(cell) ==
    IF cell.variant = "Integer" THEN (IF cell.i = 0 THEN DeFalse ELSE DeTrue)
    ELSE DeErr

\* V::deserialize_bool.
deserialize_bool(cell) ==
    IF cell = ValueInteger(1) THEN DeTrue
    ELSE IF cell = ValueInteger(0) THEN DeFalse
    ELSE DeErr

deserialize_option_ZeroIsNone(cell) ==
    IF cell.variant = "Null" \/ cell = ValueInteger(0) THEN "visit_none"
    ELSE "visit_some"

\* V::deserialize_option.
deserialize_option(cell) ==
    IF cell.variant = "Null" THEN "visit_none" ELSE "visit_some"

\* T::deserialize(V(cell)) for the field type ty.
RECURSIVE de_field(_, _)
de_field(ty, cell) ==
    IF ty.depth > 0
    THEN IF deserialize_option(cell) = "visit_none" THEN DeNone
         ELSE DeSome(de_field([ty EXCEPT !.depth = @ - 1], cell))
    ELSE IF ty.base = "bool" THEN deserialize_bool(cell)
    ELSE visit(ty.base, deserialize_any(cell), cell)

DeInputs == [fn : {"from_row"}, ty : DeTypes, cell : Values]

de_return ==
    /\ pOut = NoInput
    /\ pIn.fn = "from_row"
    /\ pOut' = [fn |-> pIn.fn, ret |-> de_field(pIn.ty, pIn.cell)]
    /\ UNCHANGED pIn
    /\ UNCHANGED notPureVars

DeInit ==
    /\ SessionInit
    /\ backend = "http"
    /\ IdInit
    /\ BatchIdle
    /\ HranaInit
    /\ LockIdle
    /\ LocalIdle
    /\ pIn \in DeInputs
    /\ pOut = NoInput

DeNext == de_return

\* from_row into a struct of one field, for every field type and cell.
SpecDe == DeInit /\ [][DeNext]_vars

\* --------------------------- batch on any BatchResult of the backend
SlotName(i) == IF i <= Len(SqlNames) THEN SqlNames[i] ELSE "sx"

\* A BatchResult of n slots: each slot has a result or none, an error or
\* none, in any combination.
BatchResultsOfLen(n) ==
    {OkBatchResult(
        [i \in 1..n |-> IF has_result[i] THEN SomeStmtResult(SlotName(i))
                                          ELSE NoStmtResult],
        [i \in 1..n |-> IF has_error[i] THEN SomeStepError(SlotName(i))
                                         ELSE NoStepError]) :
        has_result \in [1..n -> BOOLEAN], has_error \in [1..n -> BOOLEAN]}

BatchFnInputs ==
    {[fn |-> "batch", raw |-> raw] :
        raw \in UNION {BatchResultsOfLen(n) : n \in 2..(MaxStmts + 2)}}

batch_fn_return ==
    /\ pOut = NoInput
    /\ pIn.fn = "batch"
    /\ pOut' = [fn |-> pIn.fn, ret |-> batch_return_value(pIn.raw)]
    /\ UNCHANGED pIn
    /\ UNCHANGED notPureVars

BatchFnInit ==
    /\ SessionInit
    /\ backend = "http"
    /\ IdInit
    /\ BatchIdle
    /\ HranaInit
    /\ LockIdle
    /\ LocalIdle
    /\ pIn \in BatchFnInputs
    /\ pOut = NoInput

BatchFnNext == batch_fn_return

\* batch from the return of raw_batch on, for every BatchResult with a slot
\* for BEGIN, for each caller statement and for END.
SpecBatchFn == BatchFnInit /\ [][BatchFnNext]_vars

\* ------------------------------------- calls that take the map's RwLock
notLockVars == <<TRANSACTION_IDS, sessionVars, idVars, batchVars, hranaVars,
                 pureVars, localVars>>

LkOps(b) == IF b = "hrana" THEN {"execute", "commit"} ELSE {"execute", "close"}

\* execute_inner / close_stream_for (http.rs, reqwest.rs) or
\* execute_in_transaction / commit_transaction / rollback_transaction
\* (hrana.rs) is called for the task's id; its first step is to take the
\* read lock.
lk_call(t, op) ==
    /\ lkPc[t] = "idle"
    /\ op \in LkOps(lkBackend)
    /\ lkPc' = [lkPc EXCEPT ![t] = "want_read"]
    /\ lkOp' = [lkOp EXCEPT ![t] = op]
    /\ UNCHANGED <<lkBackend, lkReaders, lkWriter, lkEntry>>
    /\ UNCHANGED notLockVars

\* RwLock::read returns: no writer holds the lock.
lk_read_acquire(t) ==
    /\ lkPc[t] = "want_read"
    /\ lkWriter = 0
    /\ lkReaders' = lkReaders \cup {t}
    /\ lkPc' = [lkPc EXCEPT ![t] = "reading"]
    /\ UNCHANGED <<lkBackend, lkOp, lkWriter, lkEntry>>
    /\ UNCHANGED notLockVars

\* Where the call goes once it has read the map.
after_read(b, op, entry) ==
    IF b /= "hrana" THEN "pending_send"
    ELSE IF ~entry THEN "pending_open"
    ELSE IF op = "commit" THEN "want_drop"
    ELSE "pending_stream"

\* The entry is read and the guard goes out of scope.
lk_read_release(t) ==
    /\ lkPc[t] = "reading"
    /\ lkReaders' = guard_dropped(lkReaders, t)
    /\ lkPc' = [lkPc EXCEPT ![t] = after_read(lkBackend, lkOp[t], lkEntry[t])]
    /\ UNCHANGED <<lkBackend, lkOp, lkWriter, lkEntry>>
    /\ UNCHANGED notLockVars

\* Where the call goes when its transport call returns.
after_transport(b, pc, op, ok) ==
    IF pc = "pending_stream" THEN "idle"
    ELSE IF pc = "pending_open" THEN (IF ok THEN "want_write" ELSE "idle")
    ELSE IF op = "close"
    THEN (IF CloseRemoves(b, ok) THEN "want_write" ELSE "idle")
    ELSE IF ok THEN "want_write" ELSE "idle"

\* send, open_stream or stream.execute returns.
lk_transport_return(t, ok) ==
    /\ lkPc[t] \in LkPending
    /\ lkPc' = [lkPc EXCEPT ![t] = after_transport(lkBackend, lkPc[t], lkOp[t], ok)]
    /\ lkOp' = [lkOp EXCEPT ![t] =
                   IF after_transport(lkBackend, lkPc[t], lkOp[t], ok) = "idle"
                   THEN "none" ELSE @]
    /\ UNCHANGED <<lkBackend, lkReaders, lkWriter, lkEntry>>
    /\ UNCHANGED notLockVars

\* RwLock::write returns: nobody holds the lock.
lk_write_acquire(t) ==
    /\ lkPc[t] \in {"want_write", "want_drop"}
    /\ lkWriter = 0
    /\ lkReaders = {}
    /\ lkWriter' = t
    /\ lkPc' = [lkPc EXCEPT ![t] =
                   IF lkPc[t] = "want_write" THEN "writing" ELSE "dropping"]
    /\ UNCHANGED <<lkBackend, lkOp, lkReaders, lkEntry>>
    /\ UNCHANGED notLockVars

\* Where the call goes once it has written the map.
after_write(b, pc, op) ==
    IF b /= "hrana" THEN "idle"
    ELSE IF pc = "dropping" THEN "pending_stream"
    ELSE IF op = "commit" THEN "want_drop"
    ELSE "pending_stream"

\* insert / remove under the write guard, which is dropped with the
\* statement (http.rs) or at the function's return (hrana.rs).
lk_write_release(t) ==
    /\ lkPc[t] \in {"writing", "dropping"}
    /\ lkEntry' = [lkEntry EXCEPT ![t] =
                      lkPc[t] = "writing" /\ lkOp[t] /= "close"]
    /\ lkWriter' = 0
    /\ lkPc' = [lkPc EXCEPT ![t] = after_write(lkBackend, lkPc[t], lkOp[t])]
    /\ lkOp' = [lkOp EXCEPT ![t] =
                   IF after_write(lkBackend, lkPc[t], lkOp[t]) = "idle"
                   THEN "none" ELSE @]
    /\ UNCHANGED <<lkBackend, lkReaders>>
    /\ UNCHANGED notLockVars

LockNext ==
    \/ \E t \in LockTasks, op \in {"execute", "close", "commit"} : lk_call(t, op)
    \/ \E t \in LockTasks : lk_read_acquire(t)
    \/ \E t \in LockTasks : lk_read_release(t)
    \/ \E t \in LockTasks, ok \in BOOLEAN : lk_transport_return(t, ok)
    \/ \E t \in LockTasks : lk_write_acquire(t)
    \/ \E t \in LockTasks : lk_write_release(t)

LockInit ==
    /\ SessionInit
    /\ backend = "http"
    /\ IdInit
    /\ BatchIdle
    /\ HranaInit
    /\ PureIdle
    /\ LocalIdle
    /\ lkBackend \in LkBackends
    /\ lkPc = [t \in LockTasks |-> "idle"]
    /\ lkOp = [t \in LockTasks |-> "none"]
    /\ lkReaders = {}
    /\ lkWriter = 0
    /\ lkEntry = [t \in LockTasks |-> FALSE]

\* Tasks with distinct transaction ids calling one client concurrently.
SpecLock == LockInit /\ [][LockNext]_vars

\* ------------------------------------------------------------------ claims
TxCalls == {"transaction", "tx_execute", "tx_finish"}
Idle(c) == inflight[c] = NoReq
\* The latest statement request of c got a response (lastMsg[c]).
Answered(c) == answered[c] /\ lastMsg[c] /= NoMsg
\* Baton and base_url of the latest response of the caller's transaction.
LastBaton(c) == IF lastMsg[c] = NoMsg THEN None ELSE lastMsg[c].baton
LastBaseUrl(c) == IF lastMsg[c] = NoMsg THEN None ELSE lastMsg[c].base_url

\* C1: every request of a transaction carries the baton of the response to
\* the preceding request of that transaction, and the first request (no
\* response yet) carries no baton.
C1_BatonContinuation ==
    \A c \in TxIds :
        (~Idle(c) /\ inflight[c].tx_id > 0) => inflight[c].baton = LastBaton(c)

\* C2: a call of execute_in_transaction / commit_transaction /
\* rollback_transaction on an id that commit or rollback has released sends
\* no request and returns a misuse error.
C2_ReleasedIdRejected ==
    \A t \in TxIds :
        call[t] = "direct" => (Idle(t) /\ ret[t] = "ErrMisuse")

\* C3: at most one COMMIT or ROLLBACK statement is ever sent for an id
\* through its Transaction handle.
C3_AtMostOneTerminal == \A t \in TxIds : nTerm[t] <= 1

\* C3 witness: the one terminal statement was sent, failed, the call has
\* returned, and the handle is gone.
C3_Witness ==
    \E t \in TxIds :
        /\ nTerm[t] = 1
        /\ handle[t] = "consumed"
        /\ Idle(t)
        /\ ret[t] \in Errors

C4_State ==
    \A t \in TxIds :
        /\ handle[t] \in {"live", "consumed"} =>
              (beginAck[t] = "acked" /\ firstStmt[t] = "BEGIN")
        /\ beginAck[t] = "nack" => (handle[t] = "failed" /\ ret[t] \in Errors)
        /\ firstStmt[t] \in {"none", "BEGIN"}
        /\ handle[t] = "consumed" => call[t] = "tx_finish"
        /\ handle[t] = "failed" => (call[t] = "transaction" /\ Idle(t))

C4_Step ==
    \A t \in TxIds :
        /\ handle[t] \in {"consumed", "failed"} =>
              (handle'[t] = handle[t] /\ call'[t] = call[t] /\ nTerm'[t] = nTerm[t])
        /\ handle[t] = "none" => handle'[t] \in {"none", "live", "failed"}
        /\ handle[t] = "live" => handle'[t] \in {"live", "consumed"}

\* C4: a transaction goes Uninitialized -> Active -> Committed/RolledBack:
\* the handle exists only if BEGIN, the first statement sent for the id, was
\* acknowledged, transaction() returns an error and no handle otherwise, and
\* once commit or rollback was invoked (or transaction() failed) no other
\* statement of the transaction is issued and the handle's state never changes.
C4_Lifecycle == [](C4_State) /\ [][C4_Step]_vars

\* C4 witness: a whole lifecycle: BEGIN acknowledged, a statement executed,
\* the terminal call returned Ok.
C4_Witness ==
    \E t \in TxIds :
        /\ handle[t] = "consumed"
        /\ nExec[t] >= 1
        /\ Idle(t)
        /\ ret[t] = "Ok"

\* C5: when COMMIT/ROLLBACK succeeded and the Close request failed at the
\* transport, the session map has no entry for the id once the call returned.
C5_CloseFailureStillReleases ==
    \A t \in TxIds :
        (Idle(t) /\ closeRes[t] = "failed") => cookies[t] = NoCookie

\* C6: HTTP backend (http.rs): when the COMMIT/ROLLBACK statement itself
\* fails, the cookie map has no entry for the id after commit_transaction /
\* rollback_transaction returned the error.
C6_FailedTerminalReleases ==
    \A t \in TxIds :
        (backend = "http" /\ call[t] = "tx_finish" /\ Idle(t) /\ ret[t] \in Errors)
            => cookies[t] = NoCookie

\* C7: when the response to a request of a transaction carries no baton, the
\* session entry of the id is destroyed: the map has no entry once the call
\* returned, and no later request carries the stale baton.
C7_MissingBatonDestroysSession ==
    \A t \in TxIds :
        (call[t] \in TxCalls /\ lastMsg[t] /= NoMsg /\ lastMsg[t].baton = None) =>
            /\ Idle(t) => cookies[t] = NoCookie
            /\ ~Idle(t) => inflight[t].baton = None

\* C8: a response without baton makes a request with tx_id > 0 return the
\* "stream closed" error, even if its single result is a successful Execute
\* result; for tx_id = 0 the missing baton is no error and the result decides.
C8_MissingBatonIsError ==
    \A c \in TxIds :
        (Idle(c) /\ Answered(c) /\ lastMsg[c].baton = None) =>
            IF call[c] = "execute"
            THEN /\ ret[c] /= "ErrStreamClosed"
                 /\ lastMsg[c].results = <<"OkExecute">> => ret[c] = "Ok"
            ELSE ret[c] = "ErrStreamClosed"

\* C8 witness: a statement of a transaction was answered with a successful
\* Execute result and no baton, and the call returned the error.
C8_Witness ==
    \E t \in TxIds :
        /\ call[t] = "tx_execute"
        /\ Idle(t)
        /\ Answered(t)
        /\ lastMsg[t].baton = None
        /\ lastMsg[t].results = <<"OkExecute">>
        /\ ret[t] = "ErrStreamClosed"

\* C9: if the COMMIT/ROLLBACK statement succeeded (its response carried a
\* baton and one successful Execute result), commit()/rollback() returns Ok
\* whether the Close request that follows succeeds or fails.
C9_CommitOkDespiteClose ==
    \A t \in TxIds :
        (call[t] = "tx_finish" /\ Idle(t) /\ Answered(t)
            /\ lastMsg[t].baton /= None /\ lastMsg[t].results = <<"OkExecute">>)
            => ret[t] = "Ok"

\* C9 witness: COMMIT/ROLLBACK succeeded, the Close request failed at the
\* transport, and the call returned Ok.
C9_Witness ==
    \E t \in TxIds :
        /\ call[t] = "tx_finish"
        /\ Idle(t)
        /\ closeRes[t] = "failed"
        /\ ret[t] = "Ok"

\* C10: a request of a transaction is sent to the base_url of the latest
\* response of that transaction, and to the configured URL only when that
\* response carried none or there has been no response.
C10_RedirectHonored ==
    \A c \in TxIds :
        (~Idle(c) /\ inflight[c].tx_id > 0) =>
            inflight[c].url = (IF LastBaseUrl(c) /= None
                               THEN LastBaseUrl(c) ELSE url_for_queries)

\* C11: transaction ids are fresh and increase process-wide: whatever the
\* interleaving of Client::transaction and SyncClient::transaction calls on
\* any client instances, no two calls obtain the same id, and a call that
\* started after another had completed holds a strictly larger id.
C11_FreshMonotonicIds ==
    /\ Cardinality(handedOut) = nHanded
    /\ \A c, d \in IdCallers :
          (c /= d /\ idCall[c].pc = "allocated" /\ idCall[d].pc = "allocated")
              => idCall[c].id /= idCall[d].id
    /\ \A c \in IdCallers :
          idCall[c].pc = "allocated" => idCall[c].id > idCall[c].floor

\* C11 witness: an async call and a blocking call on different client
\* instances hold ids at the same time, one of them having started after a
\* third call had completed.
C11_Witness ==
    \E c, d \in IdCallers :
        /\ idCall[c].pc = "allocated" /\ idCall[d].pc = "allocated"
        /\ idCall[c].api = "Client" /\ idCall[d].api = "SyncClient"
        /\ idCall[c].client /= idCall[d].client
        /\ idCall[d].floor >= 1

\* The batch call has returned; raw_batch has returned.
BatchDone == bApi = "batch" /\ bPc = "done"
RawReturned == bPc \in {"raw_returned", "done"}
\* Every statement of the caller was run and succeeded (as steps 2..N+1 of
\* the wrapped batch).
CallerStepsSucceeded ==
    /\ Len(bExecuted) >= Len(bStmts) + 1
    /\ \A j \in 1..Len(bStmts) : bExecuted[j + 1].outcome = "ok"
\* The steps after BEGIN that raw_batch reported an error for.
FailingSteps ==
    {i \in 2..Len(bRaw.step_errors) : bRaw.step_errors[i].some}
LowestFailing == CHOOSE i \in FailingSteps : \A k \in FailingSteps : i <= k

\* C12: for every N >= 0 and every BatchResult raw_batch returns for
\* [BEGIN, s1..sN, END], the BEGIN step having failed included, batch
\* returns Ok with exactly N result sets or Err.
C12_ExactlyNOrErr ==
    (BatchDone /\ bRet.status = "Ok") => Len(bRet.list) = Len(bStmts)

\* C13: when all N statements of the caller succeed, the list batch returns
\* has N entries, entry j is the result of the caller's j-th statement (raw
\* step j+1), and the results of BEGIN and END are not in it.
C13_AllSucceedInOrder ==
    (BatchDone /\ CallerStepsSucceeded) =>
        /\ bRet.status = "Ok" =>
              /\ Len(bRet.list) = Len(bStmts)
              /\ \A j \in 1..Len(bStmts) :
                    /\ bRet.list[j] = [rows_of |-> bStmts[j].sql]
                    /\ bRet.list[j] = ResultSet_from(bRaw.step_results[j + 1])
        /\ (bRaw.status = "Ok" /\ Len(bExecuted) = Len(bStmts) + 2
               /\ bExecuted[Len(bStmts) + 2].outcome = "ok")
              => bRet.status = "Ok"

\* C13 witness: a batch of at least two statements returned the list of
\* their results.
C13_Witness ==
    /\ BatchDone
    /\ CallerStepsSucceeded
    /\ Len(bStmts) >= 2
    /\ bRet.status = "Ok"
    /\ Len(bRet.list) = Len(bStmts)

\* C14: if a step at raw index >= 1 (a statement of the caller, or END) has
\* an error, batch returns one Err and no list, with the message of the
\* lowest such step; an error of BEGIN (index 0) is not looked at.
C14_FirstErrorAfterBegin ==
    (BatchDone /\ bRaw.status = "Ok") =>
        /\ FailingSteps /= {} =>
              bRet = ErrResultSets(bRaw.step_errors[LowestFailing].message)
        /\ (FailingSteps = {} /\ bRaw.step_errors /= <<>>
               /\ bRaw.step_errors[1].some)
              => bRet.err /= bRaw.step_errors[1].message

\* C14 witness: BEGIN and two later steps failed, and batch returned the
\* error of the first of the two.
C14_Witness ==
    /\ BatchDone
    /\ bRaw.status = "Ok"
    /\ bRaw.step_errors[1].some
    /\ Cardinality(FailingSteps) >= 2
    /\ bRet.status = "Err"
    /\ bRet.err = bRaw.step_errors[LowestFailing].message

\* C15: raw_batch of 3 statements of which only the 2nd fails returns a
\* BatchResult with 3 entries in both lists, step_results[1] None and
\* step_errors[1] Some, and the 3rd statement is run and reported at index
\* 2; on the embedded backend as on the network backends.
C15_FailureIsolated ==
    (/\ bApi = "raw_batch"
     /\ bPc = "raw_returned"
     /\ Len(bStmts) = 3
     /\ bRaw.err \notin {"send_err", "response_err", "parse_err"}
     /\ Len(bExecuted) >= 2
     /\ bExecuted[1].outcome = "ok"
     /\ bExecuted[2].outcome /= "ok"
     /\ Len(bExecuted) >= 3 => bExecuted[3].outcome = "ok")
        => /\ bRaw.status = "Ok"
           /\ Len(bRaw.step_results) = 3
           /\ Len(bRaw.step_errors) = 3
           /\ ~bRaw.step_results[2].some
           /\ bRaw.step_errors[2].some
           /\ Len(bExecuted) = 3
           /\ bRaw.step_results[3] = SomeStmtResult(bStmts[3].sql)

\* C16: every BatchResult raw_batch returns Ok has step_results and
\* step_errors of the same length, the number of statements submitted, and
\* at every index exactly one of the two populated.
C16_BatchResultShape ==
    (RawReturned /\ bRaw.status = "Ok") =>
        /\ Len(bRaw.step_results) = Len(bRaw.step_errors)
        /\ Len(bRaw.step_results) = Len(raw_batch_input)
        /\ \A i \in 1..Len(bRaw.step_results) :
              bRaw.step_results[i].some /= bRaw.step_errors[i].some

\* C17: raw_batch preserves order: step i handed to the database is the
\* i-th statement supplied, with its arguments in positional order, the
\* statements are run in that order, and index i of step_results /
\* step_errors is the outcome of the i-th statement.
C17_OrderPreserved ==
    bPc \in {"running", "raw_returned", "done"} =>
        /\ Len(bSteps) = Len(raw_batch_input)
        /\ \A i \in 1..Len(bSteps) :
              /\ bSteps[i].sql = raw_batch_input[i].sql
              /\ bSteps[i].args = raw_batch_input[i].args
        /\ \A i \in 1..Len(bExecuted) :
              bExecuted[i].sql = raw_batch_input[i].sql
        /\ bRaw.status = "Ok" =>
              /\ Len(bRaw.step_results) <= Len(bExecuted)
              /\ Len(bRaw.step_errors) = Len(bRaw.step_results)
              /\ \A i \in 1..Len(bRaw.step_results) :
                    IF bExecuted[i].outcome = "ok"
                    THEN /\ bRaw.step_results[i]
                              = SomeStmtResult(raw_batch_input[i].sql)
                         /\ bRaw.step_errors[i] = NoStepError
                    ELSE /\ bRaw.step_results[i] = NoStmtResult
                         /\ bRaw.step_errors[i]
                              = SomeStepError(raw_batch_input[i].sql)

\* C17 witness: raw_batch of statements with arguments returned a result
\* for one statement and an error for a later one.
C17_Witness ==
    /\ bApi = "raw_batch"
    /\ bPc = "raw_returned"
    /\ bRaw.status = "Ok"
    /\ Len(bSteps) >= 2
    /\ bSteps[1].args = <<"a1", "a2">>
    /\ bRaw.step_results[1].some
    /\ bRaw.step_errors[2].some

\* C18: a statement error of the backend inside an interactive transaction
\* is returned as Err and does not end the transaction: the session entry
\* stays, holding the baton of the error response, and a following commit()
\* or rollback() sends COMMIT / ROLLBACK for the same id with that baton.
C18_ErrorKeepsSession ==
    \A t \in TxIds :
        /\ (call[t] = "tx_execute" /\ Idle(t) /\ Answered(t)
               /\ lastMsg[t].results = <<"Error">> /\ lastMsg[t].baton /= None)
              => /\ ret[t] = "ErrServer"
                 /\ handle[t] = "live"
                 /\ cookies[t] /= NoCookie
                 /\ cookies[t].baton = lastMsg[t].baton
        /\ (call[t] = "tx_finish" /\ ~Idle(t) /\ inflight[t].kind \in Terminal
               /\ lastMsg[t] /= NoMsg
               /\ lastMsg[t].results = <<"Error">> /\ lastMsg[t].baton /= None)
              => /\ inflight[t].tx_id = t
                 /\ inflight[t].baton = lastMsg[t].baton

\* C18 witness: a statement of the transaction was answered with an error
\* and a baton, and ROLLBACK is on its way with that baton.
C18_Witness ==
    \E t \in TxIds :
        /\ call[t] = "tx_finish"
        /\ inflight[t].kind = "ROLLBACK"
        /\ nExec[t] >= 1
        /\ answered[t] = FALSE
        /\ lastMsg[t] /= NoMsg
        /\ lastMsg[t].results = <<"Error">>
        /\ lastMsg[t].baton = "b2"
        /\ inflight[t].baton = "b2"

\* C19: WebSocket backend: when tasks concurrently request the stream of a
\* transaction id that has none yet, the map ends up with one stream for the
\* id, every task goes on with that mapped stream, and the duplicate opened
\* by the loser is never used to execute a statement.
C19_RaceLoserUsesMappedStream ==
    /\ \A c \in HTxIds :
          hCall[c].pc = "executing" =>
              hCall[c].stream = streams_for_transactions[hCall[c].tx_id]
    /\ \A t \in HTxIds : Cardinality(hUsed[t]) <= 1

\* C20: WebSocket backend, one transaction id used sequentially: open_stream
\* is invoked once in the life of the transaction, by BEGIN, and every
\* statement of the transaction, COMMIT / ROLLBACK included, is executed on
\* that one stream, which no other transaction uses.
C20_OneStreamPerTransaction ==
    \A t \in HTxIds :
        /\ Len(hOpens[t]) <= 1
        /\ hOpens[t] /= <<>> => hOpens[t] = <<"BEGIN">>
        /\ Cardinality(hUsed[t]) <= 1
        /\ hHandle[t] \in {"live", "consumed"} =>
              (Len(hOpens[t]) = 1 /\ Cardinality(hUsed[t]) = 1)
        /\ hCall[t].pc = "executing" => hUsed[t] = {hCall[t].stream}
        /\ \A u \in HTxIds : u /= t => hUsed[t] \cap hUsed[u] = {}

\* C20 witness: a transaction ran BEGIN, a statement and its COMMIT or
\* ROLLBACK, all on the one stream that was opened for it.
C20_Witness ==
    \E t \in HTxIds :
        /\ hHandle[t] = "consumed"
        /\ hExec[t] >= 1
        /\ hCall[t].pc = "executing"
        /\ hCall[t].kind \in Terminal
        /\ hOpens[t] = <<"BEGIN">>
        /\ hUsed[t] = {hCall[t].stream}
        /\ streams_for_transactions[t] = NoStream

C21_State ==
    \A a, b \in PairIds :
        a /= b =>
            /\ (~Idle(b) /\ inflight[b].tx_id = b)
                  => inflight[b].baton /= SessionBaton(a)
            /\ cookies[b] /= NoCookie => cookies[b].baton /= SessionBaton(a)

C21_Step ==
    \A a, b \in PairIds :
        (a /= b /\ (inflight'[a] /= inflight[a] \/ handle'[a] /= handle[a]))
            => cookies'[b] = cookies[b]

\* C21: transactions with different ids are independent: under any
\* interleaving a step of a call for id A (statement, commit, rollback,
\* Close, their failures included) leaves the session entry of every other
\* id B as it was, and no request of B carries a baton of A's stream.
C21_Independent == [](C21_State) /\ [][C21_Step]_vars

\* C21 witness: A was committed and its entry removed while B, begun in
\* between, keeps its entry and has a request in flight with its own baton.
C21_Witness ==
    /\ released[1]
    /\ cookies[1] = NoCookie
    /\ cookies[2] /= NoCookie
    /\ cookies[2].baton = "b2"
    /\ ~Idle(2)
    /\ inflight[2].tx_id = 2
    /\ inflight[2].baton = "b2"

LkCanAcquire(t) ==
    IF lkPc[t] = "want_read" THEN lkWriter = 0
    ELSE lkWriter = 0 /\ lkReaders = {}

\* C22: no lock on the session map is held while a transport call (send,
\* open_stream, stream execute) is pending; a task that wants the lock gets
\* it whenever the other tasks are idle, waiting, or have a request in
\* flight; and whenever a call is in progress some task can take a step, so
\* no interleaving of calls on distinct ids deadlocks on the lock.
C22_NoLockAcrossTransport ==
    /\ \A t \in LockTasks :
          lkPc[t] \in LkPending => (t \notin lkReaders /\ lkWriter /= t)
    /\ \A t \in LockTasks :
          (lkPc[t] \in LkWaiting
             /\ \A u \in LockTasks \ {t} : lkPc[u] \notin LkHolding)
            => LkCanAcquire(t)
    /\ (\E t \in LockTasks : lkPc[t] /= "idle")
          => \E t \in LockTasks :
                \/ lkPc[t] \in LkPending \cup LkHolding
                \/ lkPc[t] \in LkWaiting /\ LkCanAcquire(t)

\* C22 witness: while the requests of two transactions are in flight, a
\* third one holds the write guard and updates its entry.
C22_Witness ==
    /\ lkPc[1] \in LkPending
    /\ lkPc[2] \in LkPending
    /\ lkPc[3] = "writing"
    /\ lkWriter = 3

C23_Step ==
    \A t \in TxIds :
        /\ (inflight[t].kind \in StmtKinds /\ inflight'[t] = NoReq
               /\ ~answered'[t])
              => /\ ret'[t] = "ErrTransport"
                 /\ cookies' = cookies
                 /\ inflight[t].tx_id > 0 =>
                       /\ CookieFor(cookies', t).baton = inflight[t].baton
                       /\ RequestUrl(CookieFor(cookies', t)) = inflight[t].url
        /\ (inflight[t] = NoReq /\ inflight'[t] /= NoReq)
              => /\ inflight'[t].baton
                       = CookieFor(cookies, inflight'[t].tx_id).baton
                 /\ inflight'[t].url
                       = RequestUrl(CookieFor(cookies, inflight'[t].tx_id))

C23_FailedHere(t) ==
    \/ inflight[t].kind \in StmtKinds /\ inflight'[t] = NoReq /\ ~answered'[t]
    \/ inflight[t].kind = "Close" /\ inflight'[t] = NoReq
          /\ closeRes'[t] = "failed"

C23_AnyRequestStep ==
    \A t \in TxIds :
        (inflight[t].tx_id > 0 /\ C23_FailedHere(t))
            => (ret'[t] = "ErrTransport" /\ cookies' = cookies)

C24_State ==
    \A t \in PairIds :
        handle[t] = "dropped" =>
            (cookies[t] /= NoCookie /\ Idle(t) /\ nTerm[t] = 0)

C24_Step ==
    \A t \in PairIds :
        (cookies[t] /= NoCookie /\ cookies'[t] = NoCookie)
            => (inflight[t].kind = "Close" /\ inflight[t].tx_id = t
                  /\ call[t] = "tx_finish")

\* C24: the session entry of an active transaction is removed only by an
\* explicit commit or rollback of its id: dropping the Transaction handle
\* sends no ROLLBACK and no Close and leaves the entry in the map, and no
\* operation on another id and no non-transactional execute removes it.
C24_RemovedOnlyByCommitRollback == [](C24_State) /\ [][C24_Step]_vars

\* C24 witness: the handle of A was dropped and A's entry is still there
\* after B was committed and released.
C24_Witness ==
    /\ handle[1] = "dropped"
    /\ cookies[1] /= NoCookie
    /\ handle[2] = "consumed"
    /\ released[2]
    /\ cookies[2] = NoCookie

\* C25: pipeline decoding: an execute call returns Ok only if the response
\* holds exactly one result and it is an Ok Execute result (and, outside a
\* transaction or with a baton in the response, always then); raw_batch
\* returns Ok exactly if the response holds one or two results and the first
\* is an Ok Batch result. Zero results, more than allowed, a result of the
\* wrong kind and an Error result each give Err.
C25_DecodeExactCount ==
    pOut /= NoInput =>
        LET rs == pIn.results
            ok == pOut.ret = "Ok"
        IN  /\ pIn.fn = "execute" =>
                  /\ ok => (Len(rs) = 1 /\ rs[1] = "OkExecute")
                  /\ (Len(rs) = 1 /\ rs[1] = "OkExecute"
                        /\ (pIn.tx_id = 0 \/ pIn.baton /= None)) => ok
            /\ pIn.fn = "raw_batch" =>
                  (ok <=> (Len(rs) \in {1, 2} /\ rs[1] = "OkBatch"))
            /\ ~ok => pOut.ret \in {"ErrEmpty", "ErrMultiple", "ErrServer",
                                      "ErrUnexpected", "ErrStreamClosed"}

\* C25 witness: raw_batch decoded a response of two results, an Ok Batch
\* and the result of Close.
C25_Witness ==
    /\ pOut /= NoInput
    /\ pIn.fn = "raw_batch"
    /\ Len(pIn.results) = 2
    /\ pIn.results[1] = "OkBatch"
    /\ pOut.ret = "Ok"

\* C26: http_json_to_batch_result returns Err whenever the response is not
\* an array or its length differs from the number of statements submitted;
\* when it returns Ok, both step lists have exactly stmts_count entries, the
\* i-th of each decoded from the i-th entry of the response.
C26_JsonCountChecked ==
    pOut /= NoInput =>
        LET j == pIn.response_json
            n == pIn.stmts_count
            r == pOut.ret
        IN  /\ (~j.array \/ Len(j.items) /= n) => r.status = "Err"
            /\ r.status = "Ok" =>
                  /\ Len(r.step_results) = n
                  /\ Len(r.step_errors) = n
                  /\ \A i \in 1..n :
                        \/ /\ j.items[i].kind = "results"
                           /\ r.step_results[i] = SomeStmtResult(j.items[i].stmt)
                           /\ r.step_errors[i] = NoStepError
                        \/ /\ j.items[i].kind = "error"
                           /\ r.step_results[i] = NoStmtResult
                           /\ r.step_errors[i] = SomeStepError(j.items[i].stmt)

\* C26 witness: a response of three entries, a result, an error and a
\* result, decoded for three statements.
C26_Witness ==
    /\ pOut /= NoInput
    /\ pIn.stmts_count = 3
    /\ pOut.ret.status = "Ok"
    /\ pIn.response_json.items[1].kind = "results"
    /\ pIn.response_json.items[2].kind = "error"
    /\ pIn.response_json.items[2].stmt /= pIn.response_json.items[1].stmt

SniffedKind ==
    IF \E i \in 1..Len(pIn.cmds) : pIn.cmds[i] = "ParseError" THEN "none"
    ELSE IF Len(pIn.cmds) = 0 THEN "none"
    ELSE pIn.cmds[Len(pIn.cmds)]

\* C28 as stated: a statement whose sniffed kind is not INSERT, UPDATE or
\* DELETE has affected_row_count 0 and last_insert_rowid None; for an
\* INSERT, UPDATE or DELETE both are populated from the connection.
C28_BothPopulated ==
    pOut /= NoInput =>
        IF SniffedKind \in {"Insert", "Update", "Delete"}
        THEN /\ pOut.ret.affected_row_count = pIn.changes
             /\ pOut.ret.last_insert_rowid = SomeRowid(pIn.rowid)
        ELSE /\ pOut.ret.affected_row_count = 0
             /\ pOut.ret.last_insert_rowid = NoRowid

\* C28: a statement whose sniffed kind is not INSERT, UPDATE or DELETE has
\* affected_row_count 0 and last_insert_rowid None; for an INSERT, UPDATE
\* or DELETE affected_row_count is the connection's changes(); and
\* last_insert_rowid is the connection's last_insert_rowid() for an INSERT
\* only, None for an UPDATE or DELETE.
C28_SniffedMetadata ==
    pOut /= NoInput =>
        /\ pOut.ret.affected_row_count =
              (IF SniffedKind \in {"Insert", "Update", "Delete"}
               THEN pIn.changes ELSE 0)
        /\ pOut.ret.last_insert_rowid =
              (IF SniffedKind = "Insert" THEN SomeRowid(pIn.rowid) ELSE NoRowid)

\* C28 witness: an UPDATE that changed rows on a connection with a last
\* insert rowid reports the rows and no rowid.
C28_Witness ==
    /\ pOut /= NoInput
    /\ pIn.cmds = <<"Update">>
    /\ pIn.changes = 2
    /\ pIn.rowid = 5
    /\ pOut.ret.affected_row_count = 2
    /\ pOut.ret.last_insert_rowid = NoRowid

\* C29: for every ResultSet built from a StmtResult, every row and every
\* column index i, the row's lookup by the name columns[i] returns
\* values[i], whatever the column list, repeated and missing names included.
C29_NameLookupConsistent ==
    pOut /= NoInput =>
        \A i \in 1..Len(pOut.ret.columns) :
            try_column(pOut.ret.row, pOut.ret.columns[i])
                = SomeValue(pOut.ret.row.values[i])

\* C30: for every Value of each variant, writing it as a statement
\* argument and decoding the resulting JSON cell yields a value equal to the
\* original, of the same variant.
C30_CodecRoundTrip ==
    pOut /= NoInput =>
        \A i \in 1..Len(pIn.args) : pOut.ret[i] = ParseOk(pIn.args[i])

\* C31: from_row, boolean target field: the field decodes to true exactly
\* for a cell Integer 1 and to false exactly for Integer 0; every other cell
\* (any other Integer, Null, Float, Text, Blob) gives a decode error.
C31_BoolOnlyFromZeroOne ==
    (pOut /= NoInput /\ pIn.ty = [base |-> "bool", depth |-> 0]) =>
        /\ (pOut.ret = DeTrue) <=> (pIn.cell = ValueInteger(1))
        /\ (pOut.ret = DeFalse) <=> (pIn.cell = ValueInteger(0))
        /\ pIn.cell \notin {ValueInteger(0), ValueInteger(1)} => ~pOut.ret.ok
        /\ pOut.ret.ok => pOut.ret \in {DeTrue, DeFalse}

\* C31 witness: a bool field was decoded from a cell Integer -1.
C31_Witness ==
    /\ pOut /= NoInput
    /\ pIn.ty = [base |-> "bool", depth |-> 0]
    /\ pIn.cell = ValueInteger(-1)
    /\ ~pOut.ret.ok

\* C32: from_row, Option<T> target field: the field decodes to None if and
\* only if the cell is Null; for every non-Null cell it decodes to Some(v)
\* where v is what the cell decodes to for the target type T, or fails as T
\* fails.
C32_OptionNoneIffNull ==
    (pOut /= NoInput /\ pIn.ty.depth > 0) =>
        LET inner == de_field([pIn.ty EXCEPT !.depth = @ - 1], pIn.cell)
        IN  /\ (pOut.ret = DeNone) <=> (pIn.cell = ValueNull)
            /\ pIn.cell /= ValueNull =>
                  IF inner.ok
                  THEN /\ pOut.ret.ok
                       /\ pOut.ret.layers = <<"Some">> \o inner.layers
                       /\ pOut.ret.kind = inner.kind
                       /\ pOut.ret.val = inner.val
                  ELSE pOut.ret = inner

\* C32 witness: an Option<bool> field was decoded from a cell Integer 0.
C32_Witness ==
    /\ pOut /= NoInput
    /\ pIn.ty = [base |-> "bool", depth |-> 1]
    /\ pIn.cell = ValueInteger(0)
    /\ pOut.ret = DeSome(DeFalse)

\* C33: in batch, if no step at index >= 1 has an error but the result of
\* some caller statement is missing, batch returns Err("Unexpected missing
\* result set") with no list; if only the BEGIN slot or the END slot lacks a
\* result, batch returns Ok with the results of the caller statements.
C33_MissingResultIsError ==
    (pOut /= NoInput /\ pIn.fn = "batch") =>
        LET results == pIn.raw.step_results
            errors == pIn.raw.step_errors
            n == Len(results)
            callers == 2..(n - 1)
        IN  (\A i \in 2..n : ~errors[i].some) =>
                IF \E i \in callers : ~results[i].some
                THEN pOut.ret = ErrResultSets("Unexpected missing result set")
                ELSE /\ pOut.ret.status = "Ok"
                     /\ Len(pOut.ret.list) = n - 2
                     /\ \A i \in callers :
                           pOut.ret.list[i - 1] = ResultSet_from(results[i])

\* C33 witness: BEGIN, the first caller statement and END have results, the
\* second caller statement has neither result nor error, and batch failed.
C33_Witness ==
    /\ pOut /= NoInput
    /\ pIn.fn = "batch"
    /\ Len(pIn.raw.step_results) = 4
    /\ pIn.raw.step_results[1].some
    /\ pIn.raw.step_results[2].some
    /\ ~pIn.raw.step_results[3].some
    /\ pIn.raw.step_results[4].some
    /\ \A i \in 1..4 : ~pIn.raw.step_errors[i].some
    /\ pOut.ret.status = "Err"

C34_State ==
    \A t \in HTxIds :
        /\ (hCall[t].pc = "executing" /\ hCall[t].kind \in Terminal)
              => /\ streams_for_transactions[hCall[t].tx_id] = NoStream
                 /\ hUsed[hCall[t].tx_id] = {hCall[t].stream}
        /\ (hHandle[t] = "consumed" /\ hCall[t].pc /= "opening")
              => streams_for_transactions[t] = NoStream

C34_Step ==
    \A t \in HTxIds :
        (hCall[t].pc = "executing" /\ hCall[t].kind \in Terminal
           /\ hCall'[t].pc = "idle")
            => streams_for_transactions'[hCall[t].tx_id] = NoStream

\* C34: WebSocket backend: commit_transaction / rollback_transaction remove
\* the id's stream from the map before COMMIT / ROLLBACK is sent: while the
\* statement is executing the map has no entry for the id and the statement
\* runs on the stream all statements of the transaction ran on, and when the
\* call returns, with Ok or with an error, the map still has no entry.
C34_StreamDroppedBeforeTerminal == [](C34_State) /\ [][C34_Step]_vars

\* C34 witness: ROLLBACK of a transaction that ran a statement is executing
\* on the transaction's stream, the entry already removed.
C34_Witness ==
    \E t \in HTxIds :
        /\ hCall[t].pc = "executing"
        /\ hCall[t].kind = "ROLLBACK"
        /\ hExec[t] >= 1
        /\ hCall[t].stream /= NoStream
        /\ hUsed[t] = {hCall[t].stream}
        /\ streams_for_transactions[t] = NoStream


\* C35: every key of the session map belongs to a transaction whose handle
\* was returned and that is not yet committed or rolled back; in particular
\* no entry remains for an id whose transaction() failed at BEGIN.
C35_SessionKeysAreLiveTransactions ==
    \A t \in TxIds :
        (Idle(t) /\ cookies[t] /= NoCookie) => handle[t] = "live"


\* C36: no transaction is ever allocated id 0: every id handed to
\* Transaction::new / SyncTransaction::new is at least 1, so the HTTP
\* backend's test tx_id > 0 holds for every request of a transaction.
C36_NoTransactionIdZero ==
    /\ TRANSACTION_IDS >= 1
    /\ \A id \in handedOut : id >= 1 /\ InTransaction(id)
    /\ \A c \in IdCallers :
          idCall[c].pc = "allocated" =>
              (idCall[c].id >= 1 /\ InTransaction(idCall[c].id))

\* C36 witness: the first allocation of the process (it returned the
\* counter's initial value) and a later one are held by an async and a
\* blocking caller.
C36_Witness ==
    \E c, d \in IdCallers :
        /\ idCall[c].pc = "allocated" /\ idCall[d].pc = "allocated"
        /\ idCall[c].id = 1 /\ idCall[d].id > 1
        /\ idCall[c].api /= idCall[d].api
        /\ nHanded = MaxAlloc


\* A request of an operation outside a transaction is in flight for c.
Stateless(c) == inflight[c] /= NoReq /\ inflight[c].tx_id = 0

C37_State ==
    \A c \in PairIds :
        Stateless(c) =>
            /\ inflight[c].baton = None
            /\ inflight[c].url = url_for_queries
            /\ inflight[c].kind \in {"EXEC", "Batch"}

C37_Step ==
    \A c \in PairIds :
        ((Stateless(c) /\ inflight'[c] /= inflight[c])
            \/ (inflight[c] = NoReq /\ Stateless(c)'))
                => cookies' = cookies

\* C37: HTTP backend: raw_batch and execute (tx_id = 0) always send baton
\* None to the configured default URL, whatever the cookie map holds, and
\* neither their send nor their return changes the cookie map, under any
\* interleaving with active transactions.
C37_StatelessOperations == [](C37_State) /\ [][C37_Step]_vars

\* C37 witness: while the other caller's transaction holds a session entry
\* with a redirect URL, an execute of this caller has been answered with a
\* baton and a raw_batch of it is in flight.
C37_Witness ==
    \E c, t \in PairIds :
        /\ c /= t
        /\ handle[t] = "live" /\ cookies[t] /= NoCookie
        /\ cookies[t].base_url /= None
        /\ Stateless(c) /\ inflight[c].kind = "Batch"
        /\ lastMsg[c] /= NoMsg /\ lastMsg[c].baton /= None


\* The request in flight for c holds a Close.
HoldsClose(req) ==
    \E i \in 1..Len(requests_of(req.kind)) : requests_of(req.kind)[i] = "Close"

\* A committed or rolled-back transaction: the Close request was sent, and
\* it carries the baton of the transaction's stream.
C38_State ==
    \A t \in PairIds :
        /\ (inflight[t].kind = "Close") => inflight[t].baton = LastBaton(t)
        /\ (Idle(t) /\ call[t] = "tx_finish" /\ ret[t] = "Ok")
              => closeRes[t] /= "none"

\* An operation outside a transaction opened a stream (its request carried
\* no baton) and completes with a response whose baton says the stream is
\* still open: no later request can carry that baton, so the request
\* itself held the Close.
C38_Step ==
    \A c \in PairIds :
        (Stateless(c) /\ inflight[c].baton = None
            /\ inflight'[c] = NoReq /\ answered'[c]
            /\ lastMsg'[c].baton /= None)
                => HoldsClose(inflight[c])

\* C38: HTTP backend: every server stream the client opens (a request sent
\* with baton None) is closed by the client once the operation or
\* transaction that opened it has completed: the opening request holds a
\* Close, or a later request carrying the stream's baton does.
C38_OpenedStreamsAreClosed == [](C38_State) /\ [][C38_Step]_vars


\* Slot i of a BatchResult holds a result or an error, not both, not neither.
OnePopulated(raw, i) == raw.step_results[i].some /= raw.step_errors[i].some

\* C39: embedded backend: execute never reaches its unreachable!() arm:
\* whenever raw_batch of a single statement returns Ok, both step lists
\* have exactly one entry and exactly one of the two is populated, so
\* execute returns Ok(result) or Err(Misuse(message)).
C39_ExecuteMatchIsTotal ==
    /\ (pOut /= NoInput /\ pIn.fn = "local_execute") =>
          /\ pOut.ret.status \in {"Ok", "Err"}
          /\ local_raw_batch(pIn.runs).status = "Ok" =>
                pOut.ret.value \in {pIn.runs[1].sql, "Misuse"}
    /\ (pOut /= NoInput /\ pIn.fn = "local_raw_batch" /\ Len(pIn.runs) = 1
           /\ pOut.ret.status = "Ok") =>
          /\ Len(pOut.ret.step_results) = 1
          /\ Len(pOut.ret.step_errors) = 1
          /\ OnePopulated(pOut.ret, 1)

\* C39 witness: execute of a statement whose query failed has returned
\* Err(Misuse).
C39_Witness ==
    /\ pOut /= NoInput /\ pIn.fn = "local_execute"
    /\ pIn.runs[1].outcome = "query_err"
    /\ pOut.ret = [status |-> "Err", value |-> "Misuse"]


\* How often pair x occurs in pairs.
Occurrences(pairs, x) == Cardinality({i \in 1..Len(pairs) : pairs[i] = x})

\* pop_query_param has returned.
Popped == pOut /= NoInput /\ pIn.fn = "pop_query_param"

\* Some pair has the key: the value of the first such pair is returned and
\* the query holds the other original pairs, without that one.
C40_Present ==
    LET before == query_pairs(pIn.url)
        after == query_pairs(pOut.ret.url)
        idx == CHOOSE i \in 1..Len(before) :
                   /\ before[i].key = pIn.param
                   /\ \A j \in 1..(i - 1) : before[j].key /= pIn.param
    IN  /\ pOut.ret.value = SomeParam(before[idx].value)
        /\ Len(after) = Len(before) - 1
        /\ \A i \in 1..Len(before) :
              Occurrences(after, before[i]) =
                  Occurrences(before, before[i])
                      - (IF before[i] = before[idx] THEN 1 ELSE 0)

\* No pair has the key: None is returned and the URL is unchanged.
C40_Absent ==
    /\ pOut.ret.value = NoParam
    /\ pOut.ret.url = pIn.url

\* C40: pop_query_param(url, p): if some query pair has key p, it returns
\* the value of the first such pair and afterwards the URL's query contains
\* exactly the other original pairs and not that pair; if no pair has key
\* p, it returns None and the URL is unchanged.
C40_PopQueryParam ==
    Popped =>
        IF \E i \in 1..Len(query_pairs(pIn.url)) :
               query_pairs(pIn.url)[i].key = pIn.param
        THEN C40_Present
        ELSE C40_Absent

====
